---- MODULE Spec2Model ----
(***************************************************************************)
(* Model of the translation orchestration of warmthly-api:                 *)
(*   functions/api/i18n/translation-service.ts  (providers, orchestrator)  *)
(*   functions/api/i18n/translation-quality.ts  (quality scorer)           *)
(*   functions/api/i18n/translation-cache.ts    (two-tier cache)           *)
(*   functions/api/i18n/[[path]].ts             (onRequest, getTranslations)*)
(* Texts are sequences of code points.  Scores are exact rationals kept    *)
(* as integer numerators over a common denominator.                        *)
(***************************************************************************)
EXTENDS Integers, Sequences, FiniteSets, TLC

VARIABLES
  \* ---- HybridTranslationService.translate (one call) ----
  libreTranslateUrl,   \* config.libreTranslateUrl is set
  text,                \* the text argument
  targetLang,          \* the targetLang argument
  sanitizedText,       \* const sanitizedText
  availableProviders,  \* const availableProviders (priority-sorted)
  pc,                  \* position of the translate call
  call,                \* racing phase: state of provider.translate(...) per provider
  results,             \* racing phase: what each translationPromise resolved to
  seqCall,             \* sequential fallback: state of provider.translate(...) per provider
  seqOutcome,          \* sequential fallback: what each awaited call produced
  errors,              \* const errors: Error[] of the sequential fallback
  returned,            \* the value translate resolved with
  thrown,              \* the error translate rejected with
  \* ---- TranslationCache (one instance) over the persistent store ----
  config,              \* TranslationCache.config: ttl (s), version, enabled
  kvBound,             \* KVCache.kv is a namespace (not null)
  kvStore,             \* the persistent store: key -> stored entry
  memoryCache,         \* InMemoryCache.cache: entries in insertion order
  now,                 \* Date.now() / 1000: the clock, in whole seconds
  lastOp,              \* the cache operation that completed last, and what it saw
  \* ---- onRequest / getTranslations (one request at a time) ----
  hasProvider,         \* env.LIBRETRANSLATE_URL or env.HUGGINGFACE_API_KEY is set
  pendingPuts,         \* kv.put calls started by cache.set and not settled yet
  cached,              \* per cache key: the entry the last cache.set wrote, and whether
                       \* every tier of that request's cache took it
  lastRequest,         \* the request answered last: what it called and returned
  requests,            \* number of requests answered
  \* ---- translation-metrics: the module's MetricsStore ----
  observed,            \* the specification follows the clock of the racing phase and the
                       \* metrics store (fixed at the start)
  metrics,             \* MetricsStore.metrics: the entries held, oldest first
  added,               \* every entry handed to MetricsStore.add since the last clear
  degradation,         \* what checkPerformanceDegradation returned last
  \* ---- requests in flight at the same time ----
  inflight,            \* per request: where its getTranslations stands, and its cache
  \* ---- HybridTranslationService.translateBatch (one call) ----
  batchRun,            \* the call: its position, its texts, its translate calls
  \* one call of evaluateTranslationQuality
  evaluation           \* its parameters and the QualityScore it returned

tvars == <<libreTranslateUrl, text, targetLang, sanitizedText, availableProviders,
           pc, call, results, seqCall, seqOutcome, errors, returned, thrown>>

cvars == <<config, kvBound, kvStore, memoryCache, now, lastOp>>

rvars == <<hasProvider, pendingPuts, cached, lastRequest, requests>>

mvars == <<observed, metrics, added, degradation>>

qvars == <<inflight>>

bvars == <<batchRun>>

evars == <<evaluation>>

vars == <<tvars, cvars, rvars, mvars, qvars, bvars, evars>>

----------------------------------------------------------------------------
(* Generic helpers *)

Range(s) == {s[i] : i \in 1..Len(s)}

Max(a, b) == IF a >= b THEN a ELSE b

Min(a, b) == IF a <= b THEN a ELSE b

EmptyText == << >>

----------------------------------------------------------------------------
(* Texts used as inputs (code points) *)

\* "Cancel"
TextCancel == <<67, 97, 110, 99, 101, 108>>

\* two blanks: non-empty, but empty after trim()
TextBlank == <<32, 32>>

\* katakana "kyanseru"
TextKatakana == <<12461, 12515, 12531, 12475, 12523>>

\* "Error"
TextError == <<69, 114, 114, 111, 114>>

\* "Failed"
TextFailed == <<70, 97, 105, 108, 101, 100>>

\* "<scr<script></script>ipt></script>": a script element wrapped around another
TextNested ==
  <<60, 115, 99, 114>> \o
  <<60, 115, 99, 114, 105, 112, 116, 62>> \o <<60, 47, 115, 99, 114, 105, 112, 116, 62>> \o
  <<105, 112, 116, 62>> \o <<60, 47, 115, 99, 114, 105, 112, 116, 62>>

SourceTexts == {EmptyText, TextCancel, TextBlank, TextNested}

BackendTexts == {TextKatakana, TextError, TextFailed}

TargetLangs == {"ja", "fr"}

----------------------------------------------------------------------------
(* Providers *)

\* this.providers, in constructor order
Providers == <<"LibreTranslate", "NLLB", "OPUSMT", "M2M100">>

ProviderSet == Range(Providers)

\* this.providerConfigs: priority
Priority(p) ==
  CASE p = "LibreTranslate" -> 4
    [] p = "NLLB" -> 3
    [] p = "OPUSMT" -> 2
    [] p = "M2M100" -> 1
    [] OTHER -> 0

\* provider.isAvailable(config)
IsAvailable(p, url) == IF p = "LibreTranslate" THEN url ELSE TRUE

\* Array.prototype.filter
RECURSIVE Filter(_, _)
Filter(s, url) ==
  IF s = << >> THEN << >>
  ELSE IF IsAvailable(Head(s), url) THEN <<Head(s)>> \o Filter(Tail(s), url)
       ELSE Filter(Tail(s), url)

\* the comparator with its operands swapped: lowest priority first
CompareAscending(a, b) == Priority(a) - Priority(b)

\* comparator of the sort: (configB.priority || 0) - (configA.priority || 0)
Compare(a, b) == Priority(b) - Priority(a)

\* stable insertion of x into a sorted sequence (Array.prototype.sort is stable)
RECURSIVE InsertSorted(_, _)
InsertSorted(x, s) ==
  IF s = << >> THEN <<x>>
  ELSE IF Compare(Head(s), x) <= 0 THEN <<Head(s)>> \o InsertSorted(x, Tail(s))
       ELSE <<x>> \o s

RECURSIVE SortByPriority(_)
SortByPriority(s) ==
  IF s = << >> THEN << >>
  ELSE InsertSorted(s[Len(s)], SortByPriority(SubSeq(s, 1, Len(s) - 1)))

AvailableProviders(url) == SortByPriority(Filter(Providers, url))

\* language pairs the provider's own tables carry (source language is 'en')
Supports(p, tl) == tl \in {"ja", "fr"}

(* Error messages, as records: msg names the template, provider and code fill it *)
Err(m, p, c) == [msg |-> m, provider |-> p, code |-> c]

NoError == Err("none", "", 0)

\* new Error(`Provider ${provider.name} timeout`)
TimeoutError(p) == Err("provider_timeout", p, 0)

\* new Error('Empty or invalid translation result')
EmptyResultError == Err("empty_result", "", 0)

(* What the backend does with one request *)
BackendOk == {[kind |-> "ok", body |-> t, status |-> 200] : t \in BackendTexts}

BackendNoField == {[kind |-> "nofield", body |-> EmptyText, status |-> 200]}

\* non-success statuses the backends answer with
StatusCodes == {503}

BackendStatus == {[kind |-> "status", body |-> EmptyText, status |-> c] : c \in StatusCodes}

BackendAbort == {[kind |-> "abort", body |-> EmptyText, status |-> 0]}

\* inside the race the orchestrator's timer, set first with the same delay,
\* fires before the provider's own AbortController
RaceResponses == BackendOk \cup BackendNoField \cup BackendStatus

SeqResponses == BackendOk \cup BackendNoField \cup BackendStatus \cup BackendAbort

\* provider.translate(text, targetLang, 'en', config) given the backend's response:
\* [ok |-> TRUE, value |-> string] when it resolves, [ok |-> FALSE, error |-> e] when it rejects
ProviderTranslate(p, txt, tl, resp) ==
  IF p \in {"OPUSMT", "M2M100"} /\ ~Supports(p, tl)
  THEN [ok |-> FALSE, value |-> EmptyText, error |-> Err("unsupported_pair", p, 0)]
  ELSE CASE resp.kind = "abort" ->
              [ok |-> FALSE, value |-> EmptyText, error |-> Err("request_timeout", p, 0)]
         [] resp.kind = "status" ->
              IF resp.status = 503 /\ p # "LibreTranslate"
              THEN [ok |-> FALSE, value |-> EmptyText, error |-> Err("model_loading", p, 0)]
              ELSE [ok |-> FALSE, value |-> EmptyText, error |-> Err("api_error", p, resp.status)]
         [] resp.kind = "ok" ->
              [ok |-> TRUE, value |-> resp.body, error |-> NoError]
         [] OTHER ->
              \* data.translatedText || text ; return text
              [ok |-> TRUE, value |-> txt, error |-> NoError]

----------------------------------------------------------------------------
(* HybridTranslationService.sanitizeText *)

\* ASCII lower-casing, as the i flag does for the letters the patterns use
Lower(c) == IF c >= 65 /\ c <= 90 THEN c + 32 ELSE c

\* \w
IsWordChar(c) ==
  (c >= 48 /\ c <= 57) \/ (c >= 65 /\ c <= 90) \/ (c >= 97 /\ c <= 122) \/ c = 95

\* \s, and the characters trim() strips
IsSpace(c) == c \in {9, 10, 11, 12, 13, 32, 160, 5760, 8232, 8233, 8239, 8287, 12288, 65279}
              \/ (c >= 8192 /\ c <= 8202)

\* "<script"
LitScriptOpen == <<60, 115, 99, 114, 105, 112, 116>>

\* "</script>"
LitScriptClose == <<60, 47, 115, 99, 114, 105, 112, 116, 62>>

\* the literal lit occurs in s at position i, ignoring case
MatchLit(s, i, lit) ==
  /\ i >= 1
  /\ i + Len(lit) - 1 <= Len(s)
  /\ \A k \in 1..Len(lit) : Lower(s[i + k - 1]) = lit[k]

\* first position >= i where "</script>" starts, 0 when there is none
RECURSIVE FindClose(_, _)
FindClose(s, i) ==
  IF i > Len(s) THEN 0
  ELSE IF MatchLit(s, i, LitScriptClose) THEN i
       ELSE FindClose(s, i + 1)

\* /<script\b[^<]*(?:(?!<\/script>)<[^<]*)*<\/script>/ matched at i:
\* the position after the match, 0 when it does not match
ScriptMatchEnd(s, i) ==
  IF /\ MatchLit(s, i, LitScriptOpen)
     /\ (i + 7 > Len(s) \/ ~IsWordChar(s[i + 7]))
  THEN LET j == FindClose(s, i + 7)
       IN  IF j = 0 THEN 0 ELSE j + Len(LitScriptClose)
  ELSE 0

\* position after the run of characters satisfying \w from i on
RECURSIVE SkipWord(_, _)
SkipWord(s, i) == IF i <= Len(s) /\ IsWordChar(s[i]) THEN SkipWord(s, i + 1) ELSE i

RECURSIVE SkipSpace(_, _)
SkipSpace(s, i) == IF i <= Len(s) /\ IsSpace(s[i]) THEN SkipSpace(s, i + 1) ELSE i

IsQuote(c) == c = 34 \/ c = 39

RECURSIVE SkipNonQuote(_, _)
SkipNonQuote(s, i) == IF i <= Len(s) /\ ~IsQuote(s[i]) THEN SkipNonQuote(s, i + 1) ELSE i

\* /on\w+\s*=\s*["'][^"']*["']/ matched at i: position after the match, 0 when none
HandlerMatchEnd(s, i) ==
  IF ~MatchLit(s, i, <<111, 110>>) THEN 0
  ELSE LET w == SkipWord(s, i + 2)
           e == SkipSpace(s, w)
       IN  IF w = i + 2 \/ e > Len(s) \/ s[e] # 61 THEN 0
           ELSE LET q == SkipSpace(s, e + 1)
                IN  IF q > Len(s) \/ ~IsQuote(s[q]) THEN 0
                    ELSE LET c == SkipNonQuote(s, q + 1)
                         IN  IF c > Len(s) THEN 0 ELSE c + 1

\* String.prototype.replace(/.../gi, '') for the script pattern
RECURSIVE RemoveScripts(_, _)
RemoveScripts(s, i) ==
  IF i > Len(s) THEN << >>
  ELSE LET e == ScriptMatchEnd(s, i)
       IN  IF e # 0 THEN RemoveScripts(s, e)
           ELSE <<s[i]>> \o RemoveScripts(s, i + 1)

\* String.prototype.replace(/.../gi, '') for the event-handler pattern
RECURSIVE RemoveHandlers(_, _)
RemoveHandlers(s, i) ==
  IF i > Len(s) THEN << >>
  ELSE LET e == HandlerMatchEnd(s, i)
       IN  IF e # 0 THEN RemoveHandlers(s, e)
           ELSE <<s[i]>> \o RemoveHandlers(s, i + 1)

\* String.prototype.trim
RECURSIVE TrimLeft(_)
TrimLeft(s) == IF s # << >> /\ IsSpace(Head(s)) THEN TrimLeft(Tail(s)) ELSE s

RECURSIVE TrimRight(_)
TrimRight(s) ==
  IF s # << >> /\ IsSpace(s[Len(s)]) THEN TrimRight(SubSeq(s, 1, Len(s) - 1)) ELSE s

Trim(s) == TrimRight(TrimLeft(s))

sanitizeText(t) == Trim(RemoveHandlers(RemoveScripts(t, 1), 1))


----------------------------------------------------------------------------
(* universal-languages: getUniversalLanguageInfo *)

\* the language database has an entry for the code
LangKnown(lang) == lang \in {"ja", "fr", "ar", "chr", "zxx"}

\* langInfo.script ("" when the entry carries none)
LangScript(lang) ==
  CASE lang = "ja" -> "Jpan"
    [] lang = "fr" -> "Latn"
    [] lang = "ar" -> "Arab"
    [] lang = "chr" -> "Cher"
    [] OTHER -> ""

\* langInfo.rtl
LangRtl(lang) == lang = "ar"

----------------------------------------------------------------------------
(* translation-quality.ts.  Sub-scores other than lengthRatio are in        *)
(* thousandths; lengthRatio is a numerator over LengthDen(sourceText); the  *)
(* overall score is a numerator over ScoreDen(sourceText).                  *)

LengthDen(sourceText) == 3 * Max(Len(sourceText), 1)

ScoreDen(sourceText) == 100000 * LengthDen(sourceText)

\* a variant without Math.max(0, ...) on the long side
calculateLengthRatioScoreUnclamped(sourceText, translatedText) ==
  LET sl == Len(sourceText)
      tl == Len(translatedText)
  IN  IF sl = 0 THEN (IF tl = 0 THEN LengthDen(sourceText) ELSE 0)
      ELSE IF 10 * tl < 3 * sl THEN 10 * tl
      ELSE IF tl > 3 * sl THEN 6 * sl - tl
      ELSE 3 * sl

calculateLengthRatioScore(sourceText, translatedText) ==
  LET sl == Len(sourceText)
      tl == Len(translatedText)
  IN  IF sl = 0 THEN (IF tl = 0 THEN LengthDen(sourceText) ELSE 0)
      ELSE IF 10 * tl < 3 * sl THEN Max(0, 10 * tl)
      ELSE IF tl > 3 * sl THEN Max(0, 6 * sl - tl)
      ELSE 3 * sl

\* TextEncoder writes U+FFFD for a lone surrogate; the strict decoder then succeeds
calculateEncodingScore(translatedText) ==
  IF Len(translatedText) = 0 THEN 0
  ELSE IF \E i \in 1..Len(translatedText) :
            \/ translatedText[i] = \hFFFD
            \/ (translatedText[i] >= \hD800 /\ translatedText[i] <= \hDFFF)
       THEN 500
       ELSE 1000

\* scriptRanges[expectedScript], {} when the script has no entry
ScriptRanges(script) ==
  CASE script = "Latn" -> {<<\h0000, \h007F>>, <<\h0080, \h00FF>>, <<\h0100, \h017F>>,
                           <<\h0180, \h024F>>, <<\h1E00, \h1EFF>>}
    [] script = "Cyrl" -> {<<\h0400, \h04FF>>, <<\h0500, \h052F>>}
    [] script = "Arab" -> {<<\h0600, \h06FF>>, <<\h0750, \h077F>>, <<\h08A0, \h08FF>>,
                           <<\hFB50, \hFDFF>>, <<\hFE70, \hFEFF>>}
    [] script = "Deva" -> {<<\h0900, \h097F>>}
    [] script = "Beng" -> {<<\h0980, \h09FF>>}
    [] script = "Guru" -> {<<\h0A00, \h0A7F>>}
    [] script = "Gujr" -> {<<\h0A80, \h0AFF>>}
    [] script = "Orya" -> {<<\h0B00, \h0B7F>>}
    [] script = "Taml" -> {<<\h0B80, \h0BFF>>}
    [] script = "Telu" -> {<<\h0C00, \h0C7F>>}
    [] script = "Knda" -> {<<\h0C80, \h0CFF>>}
    [] script = "Mlym" -> {<<\h0D00, \h0D7F>>}
    [] script = "Sinh" -> {<<\h0D80, \h0DFF>>}
    [] script = "Thai" -> {<<\h0E00, \h0E7F>>}
    [] script = "Laoo" -> {<<\h0E80, \h0EFF>>}
    [] script = "Mymr" -> {<<\h1000, \h109F>>}
    [] script = "Khmr" -> {<<\h1780, \h17FF>>}
    [] script = "Hans" -> {<<\h4E00, \h9FFF>>, <<\h3400, \h4DBF>>}
    [] script = "Hant" -> {<<\h4E00, \h9FFF>>, <<\h3400, \h4DBF>>}
    [] script = "Jpan" -> {<<\h3040, \h309F>>, <<\h30A0, \h30FF>>, <<\h4E00, \h9FFF>>}
    [] script = "Hang" -> {<<\hAC00, \hD7AF>>, <<\h1100, \h11FF>>}
    [] script = "Grek" -> {<<\h0370, \h03FF>>}
    [] script = "Hebr" -> {<<\h0590, \h05FF>>}
    [] script = "Armn" -> {<<\h0530, \h058F>>}
    [] script = "Geor" -> {<<\h10A0, \h10FF>>}
    [] script = "Ethi" -> {<<\h1200, \h137F>>}
    [] script = "Tibt" -> {<<\h0F00, \h0FFF>>}
    [] script = "Syrc" -> {<<\h0700, \h074F>>}
    [] script = "Bugi" -> {<<\h1A00, \h1A1F>>}
    [] script = "Olck" -> {<<\h1C50, \h1C7F>>}
    [] script = "Mtei" -> {<<\hAAE0, \hAAFF>>}
    [] OTHER -> {}

\* scriptCharCount of the loop over the characters
ScriptCharCount(translatedText, ranges) ==
  Cardinality({i \in 1..Len(translatedText) :
                 \E r \in ranges : translatedText[i] >= r[1] /\ translatedText[i] <= r[2]})

\* a variant that counts the characters also when the script has no ranges
calculateScriptConsistencyScoreUnguarded(translatedText, lang) ==
  IF ~LangKnown(lang) \/ LangScript(lang) = "" THEN 800
  ELSE LET ranges == ScriptRanges(LangScript(lang))
           total == Len(translatedText)
           inScript == ScriptCharCount(translatedText, ranges)
       IN  IF total = 0 THEN 0
           ELSE IF 10 * inScript >= 8 * total THEN 1000
           ELSE IF 10 * inScript >= 5 * total THEN 700
           ELSE IF 10 * inScript >= 3 * total THEN 400
           ELSE 100

\* a variant that scores the share of characters in the expected script itself
calculateScriptConsistencyScoreLinear(translatedText, lang) ==
  IF ~LangKnown(lang) \/ LangScript(lang) = "" THEN 800
  ELSE LET ranges == ScriptRanges(LangScript(lang))
           total == Len(translatedText)
           inScript == ScriptCharCount(translatedText, ranges)
       IN  IF ranges = {} THEN 800
           ELSE IF total = 0 THEN 0
           ELSE (1000 * inScript) \div total

calculateScriptConsistencyScore(translatedText, lang) ==
  IF ~LangKnown(lang) \/ LangScript(lang) = "" THEN 800
  ELSE LET ranges == ScriptRanges(LangScript(lang))
           total == Len(translatedText)
           inScript == ScriptCharCount(translatedText, ranges)
       IN  IF ranges = {} THEN 800
           ELSE IF total = 0 THEN 0
           ELSE IF 10 * inScript >= 8 * total THEN 1000
           ELSE IF 10 * inScript >= 5 * total THEN 700
           ELSE IF 10 * inScript >= 3 * total THEN 400
           ELSE 100

\* the character class of the rtlChars test
IsRtlChar(c) ==
  \/ (c >= \h0590 /\ c <= \h05FF) \/ (c >= \h0600 /\ c <= \h06FF)
  \/ (c >= \h0700 /\ c <= \h074F) \/ (c >= \h0750 /\ c <= \h077F)
  \/ (c >= \h08A0 /\ c <= \h08FF) \/ (c >= \hFB50 /\ c <= \hFDFF)
  \/ (c >= \hFE70 /\ c <= \hFEFF)

calculateLanguageMatchScore(translatedText, lang) ==
  LET scriptScore == calculateScriptConsistencyScore(translatedText, lang)
  IN  IF ~LangKnown(lang) THEN 800
      ELSE IF /\ LangRtl(lang)
              /\ ~(\E i \in 1..Len(translatedText) : IsRtlChar(translatedText[i]))
              /\ Len(translatedText) > 10
           THEN 300
           ELSE (scriptScore * 9) \div 10

\* "error", "failed", "translation failed", "unable to translate", "not supported"
ErrorPatterns ==
  { <<101, 114, 114, 111, 114>>,
    <<102, 97, 105, 108, 101, 100>>,
    <<116, 114, 97, 110, 115, 108, 97, 116, 105, 111, 110, 32, 102, 97, 105, 108, 101, 100>>,
    <<117, 110, 97, 98, 108, 101, 32, 116, 111, 32, 116, 114, 97, 110, 115, 108, 97, 116, 101>>,
    <<110, 111, 116, 32, 115, 117, 112, 112, 111, 114, 116, 101, 100>> }

\* String.prototype.split(/\s+/)
RECURSIVE SplitWords(_, _, _)
SplitWords(s, i, cur) ==
  IF i > Len(s) THEN <<cur>>
  ELSE IF IsSpace(s[i]) THEN <<cur>> \o SplitWords(s, SkipSpace(s, i), << >>)
       ELSE SplitWords(s, i + 1, Append(cur, s[i]))

\* a variant that takes a source of five characters for long enough
calculateConfidenceScoreFromFive(sourceText, translatedText) ==
  IF Len(Trim(translatedText)) = 0 THEN 0
  ELSE LET s1 == IF translatedText = sourceText /\ Len(sourceText) >= 5 THEN 300 ELSE 1000
           s2 == IF \E pat \in ErrorPatterns : MatchLit(translatedText, 1, pat)
                 THEN (s1 * 2) \div 10 ELSE s1
           words == SplitWords(translatedText, 1, << >>)
           s3 == IF /\ Len(translatedText) > 20
                    /\ 10 * Cardinality(Range(words)) < 3 * Len(words)
                 THEN (s2 * 5) \div 10 ELSE s2
       IN  Max(0, Min(1000, s3))

calculateConfidenceScore(sourceText, translatedText) ==
  IF Len(Trim(translatedText)) = 0 THEN 0
  ELSE LET s1 == IF translatedText = sourceText /\ Len(sourceText) > 5 THEN 300 ELSE 1000
           s2 == IF \E pat \in ErrorPatterns : MatchLit(translatedText, 1, pat)
                 THEN (s1 * 2) \div 10 ELSE s1
           words == SplitWords(translatedText, 1, << >>)
           s3 == IF /\ Len(translatedText) > 20
                    /\ 10 * Cardinality(Range(words)) < 3 * Len(words)
                 THEN (s2 * 5) \div 10 ELSE s2
       IN  Max(0, Min(1000, s3))

\* threshold in thousandths
evaluateTranslationQuality(sourceText, translatedText, lang, threshold) ==
  LET lengthRatio == calculateLengthRatioScore(sourceText, translatedText)
      encoding == calculateEncodingScore(translatedText)
      scriptConsistency == calculateScriptConsistencyScore(translatedText, lang)
      languageMatch == calculateLanguageMatchScore(translatedText, lang)
      confidence == calculateConfidenceScore(sourceText, translatedText)
      den == LengthDen(sourceText)
      overall == 15 * 1000 * lengthRatio
                 + den * (20 * encoding + 25 * scriptConsistency
                          + 25 * languageMatch + 15 * confidence)
  IN  [ score |-> overall,
        lengthRatio |-> lengthRatio,
        encoding |-> encoding,
        scriptConsistency |-> scriptConsistency,
        languageMatch |-> languageMatch,
        confidence |-> confidence,
        passes |-> overall >= threshold * 100 * den,
        issues |-> {m \in {"length", "encoding", "script", "language", "confidence"} :
                      \/ m = "length" /\ 2 * lengthRatio < den
                      \/ m = "encoding" /\ encoding < 800
                      \/ m = "script" /\ scriptConsistency < 600
                      \/ m = "language" /\ languageMatch < 600
                      \/ m = "confidence" /\ confidence < 600} ]

NoTranslation == [text |-> EmptyText, provider |-> "", score |-> -1]

\* the loop of selectBestTranslation over translations[i..], best so far in best
RECURSIVE SelectLoop(_, _, _, _, _)
SelectLoop(translations, i, best, sourceText, lang) ==
  IF i > Len(translations) THEN best
  ELSE LET quality == evaluateTranslationQuality(sourceText, translations[i].text, lang, 500)
       IN  IF quality.score > best.score
           THEN SelectLoop(translations, i + 1,
                           [text |-> translations[i].text,
                            provider |-> translations[i].provider,
                            score |-> quality.score], sourceText, lang)
           ELSE SelectLoop(translations, i + 1, best, sourceText, lang)

\* the loop with >= in place of >: the last of equal candidates wins
RECURSIVE SelectLoopLastWins(_, _, _, _, _)
SelectLoopLastWins(translations, i, best, sourceText, lang) ==
  IF i > Len(translations) THEN best
  ELSE LET quality == evaluateTranslationQuality(sourceText, translations[i].text, lang, 500)
       IN  IF quality.score >= best.score
           THEN SelectLoopLastWins(translations, i + 1,
                                   [text |-> translations[i].text,
                                    provider |-> translations[i].provider,
                                    score |-> quality.score], sourceText, lang)
           ELSE SelectLoopLastWins(translations, i + 1, best, sourceText, lang)

selectBestTranslationLastWins(translations, sourceText, lang) ==
  SelectLoopLastWins(translations, 1, NoTranslation, sourceText, lang)

\* NoTranslation stands for null
selectBestTranslation(translations, sourceText, lang) ==
  SelectLoop(translations, 1, NoTranslation, sourceText, lang)


----------------------------------------------------------------------------
(* HybridTranslationService.translate *)

NoResult == [status |-> "none", text |-> EmptyText, error |-> NoError]

Success(t) == [status |-> "ok", text |-> t, error |-> NoError]

Failure(e) == [status |-> "fail", text |-> EmptyText, error |-> e]

NoThrow == [msg |-> "none", errors |-> << >>]

\* the validation without its length test
IsValidResultNoLength(value) == TRUE

\* result && typeof result === 'string' && result.length > 0
IsValidResult(value) == Len(value) > 0

\* what one translationPromise resolves to once the race of the provider's call
\* against its timer is decided by the provider's call (out: ProviderTranslate's value)
RaceOutcome(out) ==
  IF out.ok
  THEN IF IsValidResult(out.value) THEN Success(out.value) ELSE Failure(EmptyResultError)
  ELSE Failure(out.error)

\* a late result that replaces the recorded timeout
OnLateResultOverwrite(res, p, out) == [res EXCEPT ![p] = out]

\* Promise.race is already settled when the loser arrives: nothing is recorded
OnLateResult(res, p, out) == res

\* a combinator that resolves with the first settled promise
AnySettled(res, provs) == \E i \in 1..Len(provs) : res[provs[i]].status # "none"

\* Promise.allSettled(translationPromises) has resolved
AllSettled(res, provs) == \A i \in 1..Len(provs) : res[provs[i]].status # "none"

\* successfulTranslations, in the order of availableProviders
RECURSIVE SuccessfulTranslations(_, _)
SuccessfulTranslations(res, provs) ==
  IF provs = << >> THEN << >>
  ELSE IF res[Head(provs)].status = "ok" /\ Len(res[Head(provs)].text) > 0
       THEN <<[text |-> res[Head(provs)].text, provider |-> Head(provs)]>>
            \o SuccessfulTranslations(res, Tail(provs))
       ELSE SuccessfulTranslations(res, Tail(provs))

\* the value returned once at least one provider succeeded in the race
ChooseResult(successes, sourceText, lang) ==
  IF Len(successes) = 1 THEN successes[1].text
  ELSE LET best == selectBestTranslation(successes, sourceText, lang)
       IN  IF best # NoTranslation THEN best.text ELSE successes[1].text

\* the provider the sequential loop awaits after index i, "" when the loop is over
NextSequential(provs, i) == IF i < Len(provs) THEN provs[i + 1] ELSE ""

\* index of provider p in provs
IndexOf(provs, p) == CHOOSE i \in 1..Len(provs) : provs[i] = p

\* the sum of a sequence of numbers
RECURSIVE Sum(_)
Sum(numbers) == IF numbers = << >> THEN 0 ELSE Head(numbers) + Sum(Tail(numbers))

(* translation-metrics: MetricsStore and trackTranslationComplete *)

maxMetrics == 10000

\* a TranslationMetric (sourceLang is 'en' throughout; error and qualityScore,
\* which no statistic of the degradation check reads, are left out)
Metric(provider, lang, responseTime, success, fromCache, textLength) ==
  [provider |-> provider, targetLang |-> lang, responseTime |-> responseTime,
   success |-> success, fromCache |-> fromCache, textLength |-> textLength]

\* a variant of add that keeps the oldest entries
MetricsStoreAddAtKeepOldest(limit, ms, metric) ==
  LET pushed == Append(ms, metric)
  IN  IF Len(pushed) > limit THEN SubSeq(pushed, 1, limit) ELSE pushed

\* MetricsStore.add with the limit as a parameter
MetricsStoreAddAt(limit, ms, metric) ==
  LET pushed == Append(ms, metric)
  IN  IF Len(pushed) > limit
      THEN SubSeq(pushed, Len(pushed) - limit + 1, Len(pushed))
      ELSE pushed

\* MetricsStore.add
MetricsStoreAdd(ms, metric) == MetricsStoreAddAt(maxMetrics, ms, metric)

\* trackTranslationComplete, with the times in milliseconds.  The store is
\* followed only where observed is set: a specification about translate's own
\* outcome starts with it unset and leaves the store out of its states.
trackTranslationComplete(ms, startTime, time, provider, lang, success, fromCache, textLength) ==
  IF observed
  THEN MetricsStoreAdd(ms, Metric(provider, lang, time - startTime, success, fromCache,
                                  textLength))
  ELSE ms

NoReport == [checked |-> FALSE, isDegrading |-> FALSE, issues |-> << >>, stats |-> << >>]

\* the metrics module left out of the states
MetricsIdle ==
  /\ observed = FALSE
  /\ metrics = << >>
  /\ added = << >>
  /\ degradation = NoReport

\* the metrics module as loaded: nothing tracked, nothing checked
MetricsLoaded ==
  /\ observed = TRUE
  /\ metrics = << >>
  /\ added = << >>
  /\ degradation = NoReport

----------------------------------------------------------------------------
(* The racing phase in time.  translate is called at clock 0, so the clock  *)
(* is what Date.now() - startTime yields; every provider's timer is set at   *)
(* the launch.  Where observed is unset the timers fire at any moment.       *)
ElapsedMs == now * 1000

\* providerConfig.timeout
RaceTimeout(p) ==
  CASE p = "LibreTranslate" -> 10000
    [] p = "NLLB" -> 15000
    [] p = "OPUSMT" -> 12000
    [] p = "M2M100" -> 15000

\* a variant in which a provider's timer starts when its predecessor's has run out
DeadlineInTurn(provs, p) ==
  Sum([i \in 1..IndexOf(provs, p) |-> RaceTimeout(provs[i])])

\* the elapsed time at which provider p's timer fires
Deadline(provs, p) == RaceTimeout(p)

\* no call of translate is in progress
TranslateIdle ==
  /\ libreTranslateUrl = FALSE
  /\ text = EmptyText
  /\ targetLang = ""
  /\ sanitizedText = EmptyText
  /\ availableProviders = << >>
  /\ pc = "idle"
  /\ call = [p \in ProviderSet |-> "idle"]
  /\ results = [p \in ProviderSet |-> NoResult]
  /\ seqCall = [p \in ProviderSet |-> "idle"]
  /\ seqOutcome = [p \in ProviderSet |-> NoResult]
  /\ errors = << >>
  /\ returned = EmptyText
  /\ thrown = NoThrow

TInit ==
  /\ libreTranslateUrl \in BOOLEAN
  /\ text \in SourceTexts
  /\ targetLang \in TargetLangs \cup {""}
  /\ sanitizedText = EmptyText
  /\ availableProviders = << >>
  /\ pc = "start"
  /\ call = [p \in ProviderSet |-> "idle"]
  /\ results = [p \in ProviderSet |-> NoResult]
  /\ seqCall = [p \in ProviderSet |-> "idle"]
  /\ seqOutcome = [p \in ProviderSet |-> NoResult]
  /\ errors = << >>
  /\ returned = EmptyText
  /\ thrown = NoThrow

\* entry of translate up to the await of Promise.allSettled: validation,
\* sanitization, provider selection, and the launch of every provider's call
Translate ==
  /\ pc = "start"
  /\ UNCHANGED <<libreTranslateUrl, text, targetLang, results, seqCall, seqOutcome,
                 errors, returned>>
  /\ UNCHANGED <<cvars, rvars, mvars, qvars, bvars, evars>>
  /\ IF Len(text) = 0
     THEN /\ thrown' = [msg |-> "Invalid text input", errors |-> << >>]
          /\ pc' = "thrown"
          /\ UNCHANGED <<sanitizedText, availableProviders, call>>
     ELSE IF targetLang = ""
     THEN /\ thrown' = [msg |-> "Invalid target language", errors |-> << >>]
          /\ pc' = "thrown"
          /\ UNCHANGED <<sanitizedText, availableProviders, call>>
     ELSE LET provs == AvailableProviders(libreTranslateUrl)
          IN  /\ sanitizedText' = sanitizeText(text)
              /\ availableProviders' = provs
              /\ IF Len(provs) = 0
                 THEN /\ thrown' = [msg |-> "No translation providers available",
                                    errors |-> << >>]
                      /\ pc' = "thrown"
                      /\ UNCHANGED call
                 ELSE /\ call' = [p \in ProviderSet |->
                                    IF p \in Range(provs) THEN "pending" ELSE "idle"]
                      /\ pc' = "racing"
                      /\ UNCHANGED thrown

\* provider p's call settles before its timer fires
ProviderSettles(p) ==
  /\ pc = "racing"
  /\ call[p] = "pending"
  /\ results[p].status = "none"
  /\ observed => ElapsedMs < Deadline(availableProviders, p)
  /\ \E resp \in RaceResponses :
       \E out \in {RaceOutcome(ProviderTranslate(p, sanitizedText, targetLang, resp))} :
         /\ results' = [results EXCEPT ![p] = out]
         /\ metrics' = trackTranslationComplete(metrics, 0, ElapsedMs, p, targetLang,
                                                out.status = "ok", FALSE,
                                                Len(sanitizedText))
  /\ call' = [call EXCEPT ![p] = "done"]
  /\ UNCHANGED <<libreTranslateUrl, text, targetLang, sanitizedText, availableProviders,
                 pc, seqCall, seqOutcome, errors, returned, thrown>>
  /\ UNCHANGED <<cvars, rvars, observed, added, degradation, qvars, bvars, evars>>

\* provider p's timer fires while its call is still pending
ProviderTimeout(p) ==
  /\ pc = "racing"
  /\ call[p] = "pending"
  /\ results[p].status = "none"
  /\ observed => ElapsedMs >= Deadline(availableProviders, p)
  /\ results' = [results EXCEPT ![p] = Failure(TimeoutError(p))]
  /\ metrics' = trackTranslationComplete(metrics, 0, ElapsedMs, p, targetLang, FALSE, FALSE,
                                         Len(sanitizedText))
  /\ UNCHANGED <<libreTranslateUrl, text, targetLang, sanitizedText, availableProviders,
                 pc, call, seqCall, seqOutcome, errors, returned, thrown>>
  /\ UNCHANGED <<cvars, rvars, observed, added, degradation, qvars, bvars, evars>>

\* provider p's call settles after its timer has fired
ProviderSettlesLate(p) ==
  /\ call[p] = "pending"
  /\ results[p].status # "none"
  /\ \E resp \in RaceResponses :
       results' = OnLateResult(results, p,
                               RaceOutcome(ProviderTranslate(p, sanitizedText, targetLang, resp)))
  /\ call' = [call EXCEPT ![p] = "done"]
  /\ UNCHANGED <<libreTranslateUrl, text, targetLang, sanitizedText, availableProviders,
                 pc, seqCall, seqOutcome, errors, returned, thrown>>
  /\ UNCHANGED <<cvars, rvars, mvars, qvars, bvars, evars>>

\* Promise.allSettled resolves: collect the successes, then either return the
\* chosen one or enter the sequential fallback and await its first provider
RaceSettled ==
  /\ pc = "racing"
  /\ AllSettled(results, availableProviders)
  /\ LET successes == SuccessfulTranslations(results, availableProviders)
     IN  IF Len(successes) = 0
         THEN /\ pc' = "sequential"
              /\ seqCall' = [seqCall EXCEPT ![availableProviders[1]] = "pending"]
              /\ UNCHANGED returned
         ELSE /\ pc' = "returned"
              /\ returned' = ChooseResult(successes, sanitizedText, targetLang)
              /\ UNCHANGED seqCall
  /\ UNCHANGED <<libreTranslateUrl, text, targetLang, sanitizedText, availableProviders,
                 call, results, seqOutcome, errors, thrown>>
  /\ UNCHANGED <<cvars, rvars, mvars, qvars, bvars, evars>>

\* the awaited call of the sequential loop settles: return, or record the error
\* and go on to the next provider, or throw the aggregate after the last one
SequentialSettles(p) ==
  /\ pc = "sequential"
  /\ seqCall[p] = "pending"
  /\ \E resp \in SeqResponses :
       LET out == ProviderTranslate(p, sanitizedText, targetLang, resp)
           nxt == NextSequential(availableProviders, IndexOf(availableProviders, p))
           errs == IF out.ok THEN errors ELSE Append(errors, out.error)
       IN  IF out.ok /\ IsValidResult(out.value)
           THEN /\ returned' = out.value
                /\ pc' = "returned"
                /\ seqOutcome' = [seqOutcome EXCEPT ![p] = Success(out.value)]
                /\ seqCall' = [seqCall EXCEPT ![p] = "done"]
                /\ UNCHANGED <<errors, thrown>>
           ELSE /\ errors' = errs
                /\ seqOutcome' = [seqOutcome EXCEPT
                                    ![p] = IF out.ok THEN Failure(EmptyResultError)
                                           ELSE Failure(out.error)]
                /\ IF nxt = ""
                   THEN /\ thrown' = [msg |-> "Translation failed", errors |-> errs]
                        /\ pc' = "thrown"
                        /\ seqCall' = [seqCall EXCEPT ![p] = "done"]
                   ELSE /\ seqCall' = [seqCall EXCEPT ![p] = "done", ![nxt] = "pending"]
                        /\ UNCHANGED <<pc, thrown>>
                /\ UNCHANGED returned
  /\ UNCHANGED <<libreTranslateUrl, text, targetLang, sanitizedText, availableProviders,
                 call, results>>
  /\ UNCHANGED <<cvars, rvars, mvars, qvars, bvars, evars>>

\* time passes during the racing phase, up to the next timer that is due
TimePasses ==
  /\ observed
  /\ pc = "racing"
  /\ \E p \in Range(availableProviders) :
       /\ results[p].status = "none"
       /\ \A o \in Range(availableProviders) :
            results[o].status = "none" =>
              Deadline(availableProviders, p) <= Deadline(availableProviders, o)
       /\ ElapsedMs < Deadline(availableProviders, p)
       /\ now' = Deadline(availableProviders, p) \div 1000
  /\ UNCHANGED <<config, kvBound, kvStore, memoryCache, lastOp>>
  /\ UNCHANGED <<tvars, rvars, mvars, qvars, bvars, evars>>

TNext ==
  \/ Translate
  \/ \E p \in ProviderSet : ProviderSettles(p)
  \/ \E p \in ProviderSet : ProviderTimeout(p)
  \/ \E p \in ProviderSet : ProviderSettlesLate(p)
  \/ RaceSettled
  \/ \E p \in ProviderSet : SequentialSettles(p)



----------------------------------------------------------------------------
(* Properties of translate *)

Eligible == Range(availableProviders)

Finished == pc \in {"returned", "thrown"}

\* indices of availableProviders whose racing outcome is a success
RaceSuccessIdx == {i \in 1..Len(availableProviders) :
                     results[availableProviders[i]].status = "ok"}

\* score of the racing candidate of availableProviders[i]
CandidateScore(i) ==
  evaluateTranslationQuality(sanitizedText, results[availableProviders[i]].text,
                             targetLang, 500).score

\* C1: for a non-empty text and a target language, translate ends either
\* returning a non-empty string or throwing the aggregate 'Translation failed'
\* error, and it throws only when every eligible provider failed both in the
\* race and in the sequential fallback.
C1_ReturnsTextOrAggregate ==
  (Finished /\ Len(text) > 0 /\ targetLang # "") =>
    /\ pc = "returned" => Len(returned) > 0 /\ thrown = NoThrow
    /\ pc = "thrown" =>
         /\ thrown.msg = "Translation failed"
         /\ returned = EmptyText
         /\ Eligible # {}
         /\ \A p \in Eligible : results[p].status = "fail" /\ seqOutcome[p].status = "fail"

\* the aggregate error raised for a translatable text after a provider timed
\* out in the race and every provider threw in the fallback
C1_Witness ==
  /\ pc = "thrown"
  /\ text = TextCancel
  /\ thrown.msg = "Translation failed"
  /\ Len(thrown.errors) = 4
  /\ results["NLLB"] = Failure(TimeoutError("NLLB"))

\* C3: the race launches every eligible provider, and nothing is selected or
\* returned (nor the fallback entered) before every launched provider has an
\* outcome recorded; a first success does not end the race.
C3_RaceCollectsEveryOutcome ==
  /\ pc = "racing" => \A p \in Eligible : call[p] # "idle"
  /\ pc \in {"sequential", "returned", "thrown"} =>
       \A p \in Eligible : results[p].status # "none"

\* translate returned the first provider's success only after the last
\* provider's timer had fired
C3_Witness ==
  /\ pc = "returned"
  /\ Len(availableProviders) = 4
  /\ results[availableProviders[1]].status = "ok"
  /\ results[availableProviders[4]] = Failure(TimeoutError(availableProviders[4]))
  /\ call[availableProviders[4]] = "pending"

\* C4: when a provider's timer fires before its call has settled the outcome
\* recorded is the timeout failure; a recorded outcome is never replaced, so
\* what the provider delivers afterwards is discarded; and recording one
\* provider's outcome leaves every other provider's call and outcome as is.
C4_TimeoutIsolated ==
  [][\A p \in ProviderSet :
       /\ results[p].status # "none" => results'[p] = results[p]
       /\ (results[p].status = "none" /\ results'[p].status # "none" /\ call'[p] = "pending")
            => results'[p] = Failure(TimeoutError(p))
       /\ results'[p] # results[p] =>
            \A q \in ProviderSet \ {p} : results'[q] = results[q] /\ call'[q] = call[q]
    ]_vars

\* a provider timed out, delivered its result later, and another provider's
\* success was returned
C4_Witness ==
  /\ pc = "returned"
  /\ results["NLLB"] = Failure(TimeoutError("NLLB"))
  /\ call["NLLB"] = "done"
  /\ results["OPUSMT"].status = "ok"
  /\ returned = results["OPUSMT"].text

\* C5: the sequential fallback runs only after a race without any success; it
\* calls the eligible providers in priority order, highest first, one at a
\* time, each only after the previous one has finished without a usable
\* result; the first non-empty result is returned and no later provider is
\* called.
C5_SequentialFallback ==
  LET provs == availableProviders
      n == Len(provs)
  IN  /\ \A i, j \in 1..n : i < j => Priority(provs[i]) > Priority(provs[j])
      /\ \A p \in ProviderSet : seqCall[p] # "idle" =>
           /\ p \in Eligible
           /\ pc \in {"sequential", "returned", "thrown"}
           /\ \A q \in Eligible : results[q].status = "fail"
      /\ \A j \in 1..n : seqCall[provs[j]] # "idle" =>
           \A i \in 1..(j - 1) : /\ seqCall[provs[i]] = "done"
                                 /\ seqOutcome[provs[i]].status = "fail"
      /\ Cardinality({p \in ProviderSet : seqCall[p] = "pending"}) <= 1
      /\ pc = "sequential" => \E p \in Eligible : seqCall[p] = "pending"
      /\ \A i \in 1..n : seqOutcome[provs[i]].status = "ok" =>
           /\ pc = "returned"
           /\ Len(seqOutcome[provs[i]].text) > 0
           /\ returned = seqOutcome[provs[i]].text
           /\ \A j \in (i + 1)..n : seqCall[provs[j]] = "idle"

\* the fallback returned the second provider's result: the first had failed,
\* the third and fourth were never called
C5_Witness ==
  /\ pc = "returned"
  /\ Len(availableProviders) = 4
  /\ seqOutcome[availableProviders[1]].status = "fail"
  /\ seqOutcome[availableProviders[2]].status = "ok"
  /\ seqCall[availableProviders[3]] = "idle"
  /\ seqCall[availableProviders[4]] = "idle"

\* C6: the aggregate error carries one error message per eligible provider,
\* the message of that provider's failure.
C6_AggregateCarriesEveryError ==
  (pc = "thrown" /\ thrown.msg = "Translation failed") =>
    /\ Len(thrown.errors) = Len(availableProviders)
    /\ \A p \in Eligible : \E k \in 1..Len(thrown.errors) : thrown.errors[k].provider = p

----------------------------------------------------------------------------
(* translation-cache.ts *)

\* DEFAULT_CONFIG.ttl, in seconds
DefaultTtl == 30 * 24 * 60 * 60

\* DEFAULT_CONFIG.version
DefaultVersion == "1.0.0"

\* InMemoryCache.maxSize
maxSize == 10000

\* a version stamped by an earlier deployment
OldVersion == "0.9.0"

\* "Save"
TextSave == <<83, 97, 118, 101>>

\* source texts and target languages looked up in the cache
CacheTexts == {TextCancel, TextSave}

CacheLangs == {"ja"}

\* translations stored in the cache
CachedTexts == {TextKatakana}

\* the clock advances in steps of fifteen days, MaxTicks times
TickSeconds == 15 * 24 * 60 * 60

MaxTicks == 3

\* ttl options given at construction, in seconds
TtlOptions == {15 * 24 * 60 * 60, DefaultTtl}

(* simpleHash keeps a 32-bit integer; it is held here as its two 16-bit   *)
(* halves <<high, low>> of the unsigned value, so that no intermediate    *)
(* value leaves the range of TLC's 32-bit integers.                        *)

\* hash = ((hash << 5) - hash) + char; hash = hash & hash  -- 31 * hash + char, mod 2^32
HashStep(h, c) ==
  LET low == 31 * h[2] + c
  IN  <<(31 * h[1] + (low \div 65536)) % 65536, low % 65536>>

\* the loop of simpleHash from character i on
RECURSIVE HashLoop(_, _, _)
HashLoop(t, i, hash) ==
  IF i > Len(t) THEN hash
  ELSE HashLoop(t, i + 1, HashStep(hash, t[i]))

\* Math.abs of the signed 32-bit value with halves h
HashAbs(h) ==
  IF h[1] < 32768 THEN h
  ELSE IF h[2] = 0 THEN <<65536 - h[1], 0>>
  ELSE <<65535 - h[1], 65536 - h[2]>>

\* Math.abs(hash).toString(36) writes this number, one string per number
simpleHash(t) == HashAbs(HashLoop(t, 1, <<0, 0>>))

\* `translation:${sourceLang}:${targetLang}:${hash}`
generateCacheKey(sourceText, sourceLang, lang) ==
  <<"translation", sourceLang, lang, simpleHash(sourceText)>>

AllKeys == {generateCacheKey(t, "en", l) : t \in CacheTexts, l \in CacheLangs}

NoEntry == [text |-> EmptyText, timestamp |-> -1, version |-> ""]

Entry(t, ts, v) == [text |-> t, timestamp |-> ts, version |-> v]

\* entry.timestamp of a stored value without that field: (now - undefined) is NaN,
\* and no comparison with NaN is true
NaN == -2

\* a stored value that JSON.parse rejects
Unparseable == [text |-> EmptyText, timestamp |-> NaN, version |-> "unparseable"]

\* the stored value '{}': JSON, but with none of the fields of a CacheEntry
Shapeless == [text |-> EmptyText, timestamp |-> NaN, version |-> ""]

\* values in the store that no KVCache.set wrote
Malformed == {Unparseable, Shapeless}

\* age > DEFAULT_CONFIG.ttl, age = (now - entry.timestamp) / 1000
IsExpired(entry, time) == entry.timestamp # NaN /\ time - entry.timestamp > DefaultTtl

(* Map, as a sequence of [key, value] in insertion order *)
MapHas(m, key) == \E i \in 1..Len(m) : m[i].key = key

MapGet(m, key) ==
  IF MapHas(m, key) THEN m[CHOOSE i \in 1..Len(m) : m[i].key = key].value ELSE NoEntry

MapDelete(m, key) == SelectSeq(m, LAMBDA e : e.key # key)

MapSet(m, key, value) ==
  IF MapHas(m, key)
  THEN [i \in 1..Len(m) |-> IF m[i].key = key THEN [key |-> key, value |-> value] ELSE m[i]]
  ELSE Append(m, [key |-> key, value |-> value])

\* InMemoryCache.get: the cache afterwards and the entry returned (NoEntry for null)
InMemoryCacheGet(m, key, time) ==
  LET entry == MapGet(m, key)
  IN  IF entry = NoEntry THEN [cache |-> m, entry |-> NoEntry]
      ELSE IF IsExpired(entry, time) THEN [cache |-> MapDelete(m, key), entry |-> NoEntry]
      ELSE [cache |-> m, entry |-> entry]

\* InMemoryCache.set
InMemoryCacheSet(m, key, value) ==
  LET evicted == IF Len(m) >= maxSize THEN MapDelete(m, m[1].key) ELSE m
  IN  MapSet(evicted, key, value)

\* InMemoryCache.delete
InMemoryCacheDelete(m, key) == MapDelete(m, key)

(* The calls of the persistent store may throw (kv.get, or JSON.parse of a  *)
(* malformed value; kv.put; kv.delete): a fault record says which do in one  *)
(* operation of the cache. KVCache catches and logs them.                    *)
Faults == [get : BOOLEAN, put : BOOLEAN, delete : BOOLEAN]

NoFaults == [get |-> FALSE, put |-> FALSE, delete |-> FALSE]

\* KVCache.delete
KVCacheDelete(kv, bound, key, faults) ==
  IF ~bound \/ faults.delete THEN kv ELSE [kv EXCEPT ![key] = NoEntry]

\* KVCache.get: the store afterwards and the entry returned (NoEntry for null)
KVCacheGet(kv, bound, key, time, faults) ==
  IF ~bound THEN [store |-> kv, entry |-> NoEntry]
  ELSE IF faults.get THEN [store |-> kv, entry |-> NoEntry]
  ELSE IF kv[key] = NoEntry THEN [store |-> kv, entry |-> NoEntry]
  ELSE IF kv[key] = Unparseable THEN [store |-> kv, entry |-> NoEntry]
  ELSE IF IsExpired(kv[key], time)
       THEN [store |-> KVCacheDelete(kv, bound, key, faults), entry |-> NoEntry]
       ELSE [store |-> kv, entry |-> kv[key]]

\* a KVCache.set that never reaches the store
KVCacheSetSkipped(kv, bound, key, value, faults) == kv

\* KVCache.set
KVCacheSet(kv, bound, key, value, faults) ==
  IF ~bound \/ faults.put THEN kv ELSE [kv EXCEPT ![key] = value]

\* the store drops a key expirationTtl seconds after it was put
KVStoreExpires(entry, time) ==
  entry # NoEntry /\ entry.timestamp # NaN /\ time - entry.timestamp >= DefaultTtl

\* entry.version !== this.config.version
VersionMismatch(entry, cfg) == entry.version # cfg.version

\* a TranslationCache.delete that leaves the in-process tier alone
TranslationCacheDeleteKvOnly(kv, bound, m, key, faults) ==
  [store |-> KVCacheDelete(kv, bound, key, faults), cache |-> m]

\* TranslationCache.delete
TranslationCacheDelete(kv, bound, m, key, faults) ==
  [store |-> KVCacheDelete(kv, bound, key, faults), cache |-> InMemoryCacheDelete(m, key)]

\* TranslationCache.get: both tiers afterwards, the tiers consulted in order, the
\* entry found, and the value returned (hit FALSE for null)
TranslationCacheGet(cfg, kv, bound, m, key, time, faults) ==
  IF ~cfg.enabled
  THEN [store |-> kv, cache |-> m, consulted |-> << >>, found |-> NoEntry,
        hit |-> FALSE, text |-> EmptyText]
  ELSE LET fromKv == KVCacheGet(kv, bound, key, time, faults)
           fromMem == InMemoryCacheGet(m, key, time)
           useMem == fromKv.entry = NoEntry
           entry == IF useMem THEN fromMem.entry ELSE fromKv.entry
           cache1 == IF useMem THEN fromMem.cache ELSE m
           tiers == IF useMem THEN <<"kv", "memory">> ELSE <<"kv">>
       IN  IF entry = NoEntry
           THEN [store |-> fromKv.store, cache |-> cache1, consulted |-> tiers,
                 found |-> NoEntry, hit |-> FALSE, text |-> EmptyText]
           ELSE IF VersionMismatch(entry, cfg)
           THEN LET d == TranslationCacheDelete(fromKv.store, bound, cache1, key, faults)
                IN  [store |-> d.store, cache |-> d.cache, consulted |-> tiers,
                     found |-> entry, hit |-> FALSE, text |-> EmptyText]
           ELSE [store |-> fromKv.store, cache |-> cache1, consulted |-> tiers,
                 found |-> entry, hit |-> TRUE, text |-> entry.text]

\* TranslationCache.set
TranslationCacheSet(cfg, kv, bound, m, key, translatedText, time, faults) ==
  IF ~cfg.enabled THEN [store |-> kv, cache |-> m]
  ELSE LET entry == Entry(translatedText, time, cfg.version)
       IN  [store |-> KVCacheSet(kv, bound, key, entry, faults),
            cache |-> InMemoryCacheSet(m, key, entry)]

\* no cache operation has been made (ghost record of the last one)
NoOp == [op |-> "none", key |-> << >>, faults |-> NoFaults, consulted |-> << >>,
         found |-> NoEntry, hit |-> FALSE, text |-> EmptyText]

\* no request has been made
RequestIdle ==
  /\ hasProvider = FALSE
  /\ pendingPuts = {}
  /\ cached = << >>
  /\ lastRequest = << >>
  /\ requests = 0

\* no request is in flight and no translateBatch call is in progress
ConcurrentIdle == inflight = << >> /\ batchRun = << >>

\* a cache with the default configuration, unused
CacheIdle ==
  /\ config = [ttl |-> DefaultTtl, version |-> DefaultVersion, enabled |-> TRUE]
  /\ kvBound = FALSE
  /\ kvStore = [k \in AllKeys |-> NoEntry]
  /\ memoryCache = << >>
  /\ now = 0
  /\ lastOp = NoOp

CInit ==
  /\ config \in [ttl : TtlOptions, version : {DefaultVersion}, enabled : BOOLEAN]
  /\ kvBound \in BOOLEAN
  /\ kvStore \in [AllKeys -> {NoEntry, Entry(TextError, 0, OldVersion)}]
  /\ (~kvBound => kvStore = [k \in AllKeys |-> NoEntry])
  /\ memoryCache = << >>
  /\ now = 0
  /\ lastOp = NoOp

\* cache.get(sourceText, 'en', targetLang)
CacheGet(sourceText, lang, faults) ==
  \E key \in {generateCacheKey(sourceText, "en", lang)} :
  LET r == TranslationCacheGet(config, kvStore, kvBound, memoryCache, key, now, faults)
  IN  /\ kvBound \/ faults = NoFaults
      /\ ~faults.put
      /\ kvStore' = r.store
      /\ memoryCache' = r.cache
      /\ lastOp' = [op |-> "get", key |-> key, faults |-> faults,
                    consulted |-> r.consulted, found |-> r.found, hit |-> r.hit,
                    text |-> r.text]
      /\ UNCHANGED <<config, kvBound, now>>
      /\ UNCHANGED <<tvars, rvars, mvars, qvars, bvars, evars>>

\* cache.set(sourceText, 'en', targetLang, translatedText)
CacheSet(sourceText, lang, translatedText, faults) ==
  \E key \in {generateCacheKey(sourceText, "en", lang)} :
  LET r == TranslationCacheSet(config, kvStore, kvBound, memoryCache, key, translatedText,
                               now, faults)
  IN  /\ kvBound \/ faults = NoFaults
      /\ ~faults.get /\ ~faults.delete
      /\ kvStore' = r.store
      /\ memoryCache' = r.cache
      /\ lastOp' = [op |-> "set", key |-> key, faults |-> faults, consulted |-> << >>,
                    found |-> NoEntry, hit |-> FALSE, text |-> translatedText]
      /\ UNCHANGED <<config, kvBound, now>>
      /\ UNCHANGED <<tvars, rvars, mvars, qvars, bvars, evars>>

\* cache.delete(sourceText, 'en', targetLang)
CacheDelete(sourceText, lang, faults) ==
  \E key \in {generateCacheKey(sourceText, "en", lang)} :
  LET r == TranslationCacheDelete(kvStore, kvBound, memoryCache, key, faults)
  IN  /\ kvBound \/ faults = NoFaults
      /\ ~faults.get /\ ~faults.put
      /\ MapHas(memoryCache, key) \/ kvStore[key] # NoEntry
      /\ kvStore' = r.store
      /\ memoryCache' = r.cache
      /\ lastOp' = [op |-> "delete", key |-> key, faults |-> faults, consulted |-> << >>,
                    found |-> NoEntry, hit |-> FALSE, text |-> EmptyText]
      /\ UNCHANGED <<config, kvBound, now>>
      /\ UNCHANGED <<tvars, rvars, mvars, qvars, bvars, evars>>

\* cache.invalidateAll(): the in-process tier is cleared
InvalidateAll ==
  /\ memoryCache # << >>
  /\ memoryCache' = << >>
  /\ lastOp' = NoOp
  /\ UNCHANGED <<config, kvBound, kvStore, now>>
  /\ UNCHANGED <<tvars, rvars, mvars, qvars, bvars, evars>>

\* the persistent store drops an entry whose expirationTtl has run out
KVExpire(key) ==
  /\ kvBound
  /\ KVStoreExpires(kvStore[key], now)
  /\ kvStore' = [kvStore EXCEPT ![key] = NoEntry]
  /\ lastOp' = NoOp
  /\ UNCHANGED <<config, kvBound, memoryCache, now>>
  /\ UNCHANGED <<tvars, rvars, mvars, qvars, bvars, evars>>

\* time passes
Tick ==
  /\ now < MaxTicks * TickSeconds
  /\ now' = now + TickSeconds
  /\ lastOp' = NoOp
  /\ UNCHANGED <<config, kvBound, kvStore, memoryCache>>
  /\ UNCHANGED <<tvars, rvars, mvars, qvars, bvars, evars>>

CNext ==
  \/ \E t \in CacheTexts, l \in CacheLangs, f \in Faults : CacheGet(t, l, f)
  \/ \E t \in CacheTexts, l \in CacheLangs, tr \in CachedTexts, f \in Faults :
       CacheSet(t, l, tr, f)
  \/ \E t \in CacheTexts, l \in CacheLangs, f \in Faults : CacheDelete(t, l, f)
  \/ InvalidateAll
  \/ \E k \in AllKeys : KVExpire(k)
  \/ Tick



----------------------------------------------------------------------------
(* Properties of the cache *)

\* C8: a get that finds an entry stamped with another version returns null as
\* for a miss and leaves the key in neither tier.
C8_VersionMismatchDeleted ==
  (lastOp.op = "get" /\ lastOp.found # NoEntry /\ VersionMismatch(lastOp.found, config)) =>
    /\ ~lastOp.hit
    /\ lastOp.text = EmptyText
    /\ ~MapHas(memoryCache, lastOp.key)
    /\ kvStore[lastOp.key] = NoEntry

\* C8, amended: a get that finds an entry stamped with another version returns
\* null as for a miss and leaves the key out of the in-process tier; the key
\* is out of the persistent tier too unless the store's delete threw, in which
\* case the stale entry stays there.
C8_VersionMismatchIsMiss ==
  (lastOp.op = "get" /\ lastOp.found # NoEntry /\ VersionMismatch(lastOp.found, config)) =>
    /\ ~lastOp.hit
    /\ lastOp.text = EmptyText
    /\ ~MapHas(memoryCache, lastOp.key)
    /\ kvStore[lastOp.key] = IF lastOp.faults.delete THEN lastOp.found ELSE NoEntry

\* a get found the entry of an earlier deployment in the persistent tier,
\* returned null, and the key is gone from both tiers
C8_Witness ==
  /\ lastOp.op = "get"
  /\ lastOp.found = Entry(TextError, 0, OldVersion)
  /\ ~lastOp.faults.delete
  /\ ~lastOp.hit
  /\ kvStore[lastOp.key] = NoEntry
  /\ ~MapHas(memoryCache, lastOp.key)
  /\ now > 0

\* the entry the persistent tier yields to a get of key
KvYield(key, faults) ==
  IF kvBound /\ ~faults.get /\ kvStore[key] # NoEntry /\ ~IsExpired(kvStore[key], now)
  THEN kvStore[key] ELSE NoEntry

\* the entry the in-process tier yields to a get of key
MemYield(key) ==
  IF MapHas(memoryCache, key) /\ ~IsExpired(MapGet(memoryCache, key), now)
  THEN MapGet(memoryCache, key) ELSE NoEntry

\* a get consults the persistent tier, then the in-process tier only if the
\* persistent one yielded nothing, and answers from the first entry found
GetInTierOrder ==
  lastOp'.op = "get" =>
    LET key == lastOp'.key
        kv == KvYield(key, lastOp'.faults)
    IN  /\ lastOp'.consulted = IF kv # NoEntry THEN <<"kv">> ELSE <<"kv", "memory">>
        /\ lastOp'.found = IF kv # NoEntry THEN kv ELSE MemYield(key)
        /\ lastOp'.hit = (lastOp'.found # NoEntry /\ ~VersionMismatch(lastOp'.found, config))
        /\ lastOp'.hit => lastOp'.text = lastOp'.found.text

\* C9: with the cache enabled and the store bound, get consults the persistent
\* tier first and the in-process tier only when the persistent tier yields no
\* entry, returning the first hit; and a completed set leaves the same entry
\* for the key in both tiers.
C9_TierOrderAndDoubleWrite ==
  [][(config.enabled /\ kvBound) =>
       /\ GetInTierOrder
       /\ lastOp'.op = "set" =>
            LET entry == Entry(lastOp'.text, now, config.version)
            IN  /\ MapGet(memoryCache', lastOp'.key) = entry
                /\ kvStore'[lastOp'.key] = entry
    ]_vars

\* C9, amended: with the cache enabled, get consults the persistent tier first
\* and the in-process tier only when the persistent tier yields no entry,
\* returning the first hit; a completed set leaves the entry in the in-process
\* tier, and in the persistent tier when the store is bound and its put did
\* not throw; otherwise the persistent tier keeps what it held.
C9_TierOrderAndWrite ==
  [][config.enabled =>
       /\ GetInTierOrder
       /\ lastOp'.op = "set" =>
            LET entry == Entry(lastOp'.text, now, config.version)
            IN  /\ MapGet(memoryCache', lastOp'.key) = entry
                /\ kvStore'[lastOp'.key] =
                     IF kvBound /\ ~lastOp'.faults.put THEN entry ELSE kvStore[lastOp'.key]
    ]_vars

\* with the store bound, a get found nothing in the persistent tier, went on
\* to the in-process tier and returned the entry an earlier set left there
C9_Witness ==
  /\ kvBound
  /\ lastOp.op = "get"
  /\ lastOp.consulted = <<"kv", "memory">>
  /\ lastOp.hit
  /\ lastOp.text = TextKatakana
  /\ MapGet(memoryCache, lastOp.key) = lastOp.found

\* C10: get returns no entry older than the ttl the cache was constructed
\* with, and returns the first entry younger than that ttl when its version
\* matches.
C10_ConfiguredTtlHonoured ==
  [][(config.enabled /\ lastOp'.op = "get") =>
       LET key == lastOp'.key
           kvEntry == IF kvBound /\ ~lastOp'.faults.get THEN kvStore[key] ELSE NoEntry
           memEntry == MapGet(memoryCache, key)
           Fresh(e) == e # NoEntry /\ now - e.timestamp <= config.ttl
           first == IF Fresh(kvEntry) THEN kvEntry
                    ELSE IF Fresh(memEntry) THEN memEntry ELSE NoEntry
       IN  /\ lastOp'.hit => now - lastOp'.found.timestamp <= config.ttl
           /\ (first # NoEntry /\ ~VersionMismatch(first, config)) =>
                lastOp'.hit /\ lastOp'.text = first.text
    ]_vars

\* a cache with the default configuration over a bound store in which other
\* writers have left values
CStoreInit ==
  /\ config = [ttl |-> DefaultTtl, version |-> DefaultVersion, enabled |-> TRUE]
  /\ kvBound = TRUE
  /\ kvStore \in [AllKeys -> {NoEntry, Entry(TextError, 0, OldVersion)} \cup Malformed]
  /\ memoryCache = << >>
  /\ now = 0
  /\ lastOp = NoOp

\* C11: when the store's get throws or the store holds a malformed value for
\* the key, get treats the persistent tier as a plain miss: it answers from the
\* in-process tier alone and leaves that tier's entry for the key in place.
C11_StoreFaultIsPlainMiss ==
  [][(lastOp'.op = "get" /\ (lastOp'.faults.get \/ kvStore[lastOp'.key] \in Malformed)) =>
       LET mem == MemYield(lastOp'.key)
       IN  /\ lastOp'.hit = (mem # NoEntry)
           /\ lastOp'.hit => lastOp'.text = mem.text
           /\ MapGet(memoryCache', lastOp'.key) = mem
    ]_vars

(* The in-process tier alone, as InMemoryCache's get, set and delete act on  *)
(* it.  The limit is the field maxSize, which set compares the size with; the *)
(* bounded runs take a small limit in its place so that the tier fills up.    *)
MemoryLimit == 3

\* keys of other texts cached earlier
FillerKey(i) == <<"translation", "en", "ja", <<0, i>>>>

MemoryKeys == AllKeys \cup {FillerKey(1), FillerKey(2)}

\* InMemoryCache.set with the limit as a parameter
InMemoryCacheSetAt(limit, m, key, value) ==
  LET evicted == IF Len(m) >= limit THEN MapDelete(m, m[1].key) ELSE m
  IN  MapSet(evicted, key, value)

MInit ==
  /\ config = [ttl |-> DefaultTtl, version |-> DefaultVersion, enabled |-> TRUE]
  /\ kvBound = FALSE
  /\ kvStore = [k \in AllKeys |-> NoEntry]
  /\ memoryCache = << >>
  /\ now = 0
  /\ lastOp = NoOp

\* memoryCache.get(key)
MemoryGet(key) ==
  LET r == InMemoryCacheGet(memoryCache, key, now)
  IN  /\ memoryCache' = r.cache
      /\ lastOp' = [op |-> "get", key |-> key, faults |-> NoFaults, consulted |-> <<"memory">>,
                    found |-> r.entry, hit |-> r.entry # NoEntry, text |-> r.entry.text]
      /\ UNCHANGED <<config, kvBound, kvStore, now>>
      /\ UNCHANGED <<tvars, rvars, mvars, qvars, bvars, evars>>

\* memoryCache.set(key, entry)
MemorySet(key, translatedText) ==
  /\ memoryCache' = InMemoryCacheSetAt(MemoryLimit, memoryCache, key,
                                       Entry(translatedText, now, config.version))
  /\ lastOp' = [op |-> "set", key |-> key, faults |-> NoFaults, consulted |-> << >>,
                found |-> NoEntry, hit |-> FALSE, text |-> translatedText]
  /\ UNCHANGED <<config, kvBound, kvStore, now>>
  /\ UNCHANGED <<tvars, rvars, mvars, qvars, bvars, evars>>

\* memoryCache.delete(key)
MemoryDelete(key) ==
  /\ memoryCache' = InMemoryCacheDelete(memoryCache, key)
  /\ lastOp' = [op |-> "delete", key |-> key, faults |-> NoFaults, consulted |-> << >>,
                found |-> NoEntry, hit |-> FALSE, text |-> EmptyText]
  /\ UNCHANGED <<config, kvBound, kvStore, now>>
  /\ UNCHANGED <<tvars, rvars, mvars, qvars, bvars, evars>>

MNext ==
  \/ \E key \in MemoryKeys : MemoryGet(key)
  \/ \E key \in MemoryKeys, tt \in CachedTexts : MemorySet(key, tt)
  \/ \E key \in MemoryKeys : MemoryDelete(key)
  \/ Tick

\* C12: the in-process tier never holds more entries than its limit; get and
\* delete remove no entry but the one of their key; a set removes an entry of
\* another key only when the tier is full and the key is new to it, and the
\* entry removed is then the oldest-inserted one.
C12_EvictionOnlyOnOverflow ==
  [][lastOp'.op # "none" =>
       LET key    == lastOp'.key
           before == MapDelete(memoryCache, key)
           after  == MapDelete(memoryCache', key)
       IN  /\ Len(memoryCache') <= MemoryLimit
           /\ \/ after = before
              \/ /\ lastOp'.op = "set"
                 /\ Len(memoryCache) = MemoryLimit
                 /\ ~MapHas(memoryCache, key)
                 /\ after = Tail(memoryCache)
    ]_vars

----------------------------------------------------------------------------
(* [[path]].ts: onRequest and getTranslations *)

\* the options onRequest constructs the request's cache with
RequestCacheConfig == [ttl |-> 30 * 24 * 60 * 60, version |-> "1.0.0", enabled |-> TRUE]

\* const batchSize of getTranslations
batchSize == 10

\* Object.keys(englishTranslations), here two of the keys of MANUAL_TRANSLATIONS.en
TranslationKeys == <<"common.cancel", "common.save">>

\* flattenTranslations(MANUAL_TRANSLATIONS.en)
englishTranslations ==
  [k \in Range(TranslationKeys) |-> IF k = "common.cancel" THEN TextCancel ELSE TextSave]

\* GET /api/i18n/:language and POST /api/i18n/:language/chunk
Routes == {"GET", "POST"}

\* the :language of the path; only 'en' has manual translations
RequestLangs == {"en", "ja"}

\* path segments that name a member every object inherits from Object.prototype
PrototypeMembers == {"constructor"}

\* the :language values of the requests answered one after the other
PathLangs == RequestLangs \cup PrototypeMembers

\* MANUAL_TRANSLATIONS[language] and flattenTranslations of it: the own
\* property 'en'; a function inherited from Object.prototype, which is truthy
\* and has no enumerable property for the for-in loop; or undefined
ManualTranslations(language) ==
  IF language = "en" THEN [truthy |-> TRUE, flattened |-> englishTranslations]
  ELSE IF language \in PrototypeMembers THEN [truthy |-> TRUE, flattened |-> << >>]
  ELSE [truthy |-> FALSE, flattened |-> << >>]

\* a variant that caches whatever the batch loop assigned
ShouldCacheAlways(useCache, translatedText, english) == useCache

\* if (cache && translatedText !== englishTranslations[key])
ShouldCache(useCache, translatedText, english) == useCache /\ translatedText # english

\* requests answered in one behaviour
MaxRequests == 2

\* what translationService.translateBatch does with a batch: it throws, or it
\* resolves to an array holding per text nothing, the text itself, or a translation
BatchItems == {"none", "echo", "translated"}

BatchOutcomes ==
  {<<"throw", << >>>>} \cup {<<"ok", a>> : a \in [1..Len(TranslationKeys) -> BatchItems]}

\* translations[index]
BatchItemText(item, sourceText) ==
  IF item = "none" THEN EmptyText
  ELSE IF item = "echo" THEN sourceText
  ELSE TextKatakana

\* { ...a, ...b }
Merge(a, b) ==
  [k \in (DOMAIN a) \cup (DOMAIN b) |-> IF k \in DOMAIN b THEN b[k] ELSE a[k]]

\* the loop `for (const key of keys)` of getTranslations from key i on: both
\* tiers afterwards, cachedTranslations and uncachedKeys
RECURSIVE LookupLoop(_, _, _, _, _, _, _)
LookupLoop(i, language, kv, m, faults, cachedTranslations, uncachedKeys) ==
  IF i > Len(TranslationKeys)
  THEN [store |-> kv, cache |-> m, cachedTranslations |-> cachedTranslations,
        uncachedKeys |-> uncachedKeys]
  ELSE LET key == TranslationKeys[i]
           r == TranslationCacheGet(RequestCacheConfig, kv, kvBound, m,
                                    generateCacheKey(englishTranslations[key], "en", language),
                                    now, faults)
       IN  IF r.hit /\ Len(r.text) > 0
           THEN LookupLoop(i + 1, language, r.store, r.cache, faults,
                           Merge(cachedTranslations, (key :> r.text)), uncachedKeys)
           ELSE LookupLoop(i + 1, language, r.store, r.cache, faults,
                           cachedTranslations, Append(uncachedKeys, key))

\* batch.forEach of the try block from index i on: translated, the in-process
\* tier, and the cache.set calls made (cache key and entry)
RECURSIVE BatchLoop(_, _, _, _, _, _, _, _)
BatchLoop(i, batch, items, language, useCache, m, translated, sets) ==
  IF i > Len(batch) THEN [translated |-> translated, cache |-> m, sets |-> sets]
  ELSE LET key == batch[i]
           english == englishTranslations[key]
           result == BatchItemText(items[i], english)
           translatedText == IF Len(result) > 0 THEN result ELSE english
           entry == Entry(translatedText, now, RequestCacheConfig.version)
           cacheKey == generateCacheKey(english, "en", language)
       IN  IF ShouldCache(useCache, translatedText, english)
           THEN BatchLoop(i + 1, batch, items, language, useCache,
                          InMemoryCacheSet(m, cacheKey, entry),
                          Merge(translated, (key :> translatedText)),
                          sets \cup {[key |-> cacheKey, entry |-> entry]})
           ELSE BatchLoop(i + 1, batch, items, language, useCache, m,
                          Merge(translated, (key :> translatedText)), sets)

\* the trackTranslationComplete calls of the lookup loop from lookup i on:
\* one per cache.get, a hit or a miss
RECURSIVE TrackLookups(_, _, _, _)
TrackLookups(i, ms, language, lookups) ==
  IF i > Len(lookups) THEN ms
  ELSE TrackLookups(i + 1,
                    trackTranslationComplete(ms, now, now, "Cache", language, lookups[i],
                                             lookups[i],
                                             Len(englishTranslations[TranslationKeys[i]])),
                    language, lookups)

\* getTranslations(language, env, cache): the translations returned, both tiers
\* afterwards, the cache.set calls made and the keys handed to translateBatch
getTranslations(language, useCache, kv, m, faults, outcome) ==
  IF ManualTranslations(language).truthy
  THEN [result |-> ManualTranslations(language).flattened, store |-> kv, cache |-> m,
        sets |-> {}, calls |-> << >>, lookups |-> << >>]
  ELSE IF language = "en" \/ ~hasProvider
  THEN [result |-> englishTranslations, store |-> kv, cache |-> m, sets |-> {},
        calls |-> << >>, lookups |-> << >>]
  ELSE LET looked == IF useCache
                     THEN LookupLoop(1, language, kv, m, faults, << >>, << >>)
                     ELSE [store |-> kv, cache |-> m, cachedTranslations |-> << >>,
                           uncachedKeys |-> TranslationKeys]
           batch == SubSeq(looked.uncachedKeys, 1, Min(batchSize, Len(looked.uncachedKeys)))
           done == IF outcome[1] = "throw"
                   THEN [translated |-> [k \in Range(batch) |-> englishTranslations[k]],
                         cache |-> looked.cache, sets |-> {}]
                   ELSE BatchLoop(1, batch, outcome[2], language, useCache, looked.cache,
                                  << >>, {})
       IN  [result |-> Merge(looked.cachedTranslations, done.translated),
            store |-> looked.store, cache |-> done.cache, sets |-> done.sets,
            calls |-> batch,
            lookups |-> IF useCache
                        THEN [i \in 1..Len(TranslationKeys) |->
                                TranslationKeys[i] \in DOMAIN looked.cachedTranslations]
                        ELSE << >>]

NoCached == [entry |-> NoEntry, stored |-> FALSE]

NoRequest == [route |-> "none", language |-> "", calls |-> << >>, result |-> << >>]

\* a deployment: its bindings, and what the persistent store holds from before
RInit ==
  /\ config = RequestCacheConfig
  /\ kvBound \in BOOLEAN
  /\ kvStore \in [AllKeys -> {NoEntry, Entry(TextError, 0, OldVersion)}]
  /\ (~kvBound => kvStore = [k \in AllKeys |-> NoEntry])
  /\ memoryCache = << >>
  /\ now = 0
  /\ lastOp = NoOp
  /\ hasProvider \in BOOLEAN
  /\ pendingPuts = {}
  /\ cached = [k \in AllKeys |-> NoCached]
  /\ lastRequest = NoRequest
  /\ requests = 0

\* onRequest for a GET /api/i18n/:language (getTranslations with the request's
\* new cache) or a POST /api/i18n/:language/chunk (getTranslations without one)
OnRequest(route, language, faults, outcome) ==
  /\ requests < MaxRequests
  /\ ~faults.put
  /\ kvBound \/ faults = NoFaults
  /\ \E r \in {getTranslations(language, route = "GET", kvStore, << >>, faults, outcome)} :
         /\ requests' = requests + 1
         /\ kvStore' = r.store
         /\ memoryCache' = r.cache
         /\ pendingPuts' = IF kvBound THEN pendingPuts \cup r.sets ELSE pendingPuts
         /\ cached' = [k \in AllKeys |->
                         IF \E w \in r.sets : w.key = k
                         THEN [entry |-> (CHOOSE w \in r.sets : w.key = k).entry,
                               stored |-> ~kvBound]
                         ELSE cached[k]]
         /\ lastRequest' = [route |-> route, language |-> language, calls |-> r.calls,
                            result |-> r.result]
         /\ metrics' = TrackLookups(1, metrics, language, r.lookups)
  /\ UNCHANGED <<config, kvBound, now, lastOp, hasProvider>>
  /\ UNCHANGED <<tvars, observed, added, degradation, qvars, bvars, evars>>

\* a kv.put started by cache.set settles: the store takes the entry, or the
\* put throws and KVCache.set logs it
PutSettles(fails) ==
  /\ \E w \in pendingPuts :
       /\ pendingPuts' = pendingPuts \ {w}
       /\ kvStore' = KVCacheSet(kvStore, kvBound, w.key, w.entry,
                                [get |-> FALSE, put |-> fails, delete |-> FALSE])
       /\ cached' = IF ~fails /\ cached[w.key].entry = w.entry
                    THEN [cached EXCEPT ![w.key].stored = TRUE]
                    ELSE cached
  /\ UNCHANGED <<config, kvBound, memoryCache, now, lastOp, hasProvider, lastRequest,
                 requests>>
  /\ UNCHANGED <<tvars, mvars, qvars, bvars, evars>>

RNext ==
  \/ \E route \in Routes, language \in PathLangs, f \in Faults, o \in BatchOutcomes :
       OnRequest(route, language, f, o)
  \/ \E fails \in BOOLEAN : PutSettles(fails)
  \/ \E k \in AllKeys : KVExpire(k)
  \/ Tick

\* C2: a request for a language finds every text that an earlier request
\* translated and cached, within the TTL and under the same version: it hands
\* that text to no provider and returns the cached string for it.
C2_SecondRequestServedFromCache ==
  [][(requests' = requests + 1 /\ lastRequest'.language \in CacheLangs) =>
       \A i \in 1..Len(TranslationKeys) :
         LET key == TranslationKeys[i]
             c == cached[generateCacheKey(englishTranslations[key], "en",
                                          lastRequest'.language)]
         IN  (/\ c.stored
              /\ now - c.entry.timestamp < RequestCacheConfig.ttl
              /\ c.entry.version = RequestCacheConfig.version)
             => /\ key \notin Range(lastRequest'.calls)
                /\ lastRequest'.result[key] = c.entry.text
    ]_vars

\* C15: every provider call that translate has made and seen through, in the
\* racing phase (settled or timed out) and in the sequential fallback, has
\* appended exactly one entry to the metrics store.
C15_OneEntryPerProviderCall ==
  \A p \in ProviderSet :
    Cardinality({i \in DOMAIN metrics : metrics[i].provider = p})
      = (IF results[p].status # "none" THEN 1 ELSE 0) + (IF seqCall[p] = "done" THEN 1 ELSE 0)

----------------------------------------------------------------------------
(* translation-metrics: the store under add and clear.  The limit is the    *)
(* field maxMetrics, which add compares the length with; the bounded runs    *)
(* take a small limit in its place so that the buffer fills up.              *)

MetricsLimit == 3

MaxAdded == 5

\* entries as the callers produce them: a cache hit, a cache miss, a provider call
MetricKinds ==
  {Metric("Cache", "ja", 0, TRUE, TRUE, Len(TextCancel)),
   Metric("Cache", "ja", 0, FALSE, FALSE, Len(TextCancel)),
   Metric("NLLB", "ja", 1, TRUE, FALSE, Len(TextCancel))}

\* trackTranslationMetric(metric)
MetricsAdd(metric) ==
  /\ Len(added) < MaxAdded
  /\ metrics' = MetricsStoreAddAt(MetricsLimit, metrics, metric)
  /\ added' = Append(added, metric)
  /\ UNCHANGED <<observed, degradation>>
  /\ UNCHANGED <<tvars, cvars, rvars, qvars, bvars, evars>>

\* clearMetrics()
ClearMetrics ==
  /\ added # << >>
  /\ metrics' = << >>
  /\ added' = << >>
  /\ UNCHANGED <<observed, degradation>>
  /\ UNCHANGED <<tvars, cvars, rvars, qvars, bvars, evars>>

SNext ==
  \/ \E metric \in MetricKinds : MetricsAdd(metric)
  \/ ClearMetrics

\* C14: the buffer never holds more entries than its limit, and what it holds
\* is the most recently added entries in the order they were added: when the
\* limit is passed the oldest entries are the ones dropped.
C14_KeepsMostRecent ==
  /\ Len(metrics) <= MetricsLimit
  /\ metrics = SubSeq(added, Max(1, Len(added) - MetricsLimit + 1), Len(added))

\* more entries were added than the buffer holds
C14_Witness ==
  /\ Len(added) > MetricsLimit
  /\ Len(metrics) = MetricsLimit
  /\ metrics[1] # added[1]

----------------------------------------------------------------------------
(* translation-metrics: getStats and checkPerformanceDegradation.  A rate   *)
(* or an average is kept as the pair <<numerator, denominator>> of the       *)
(* division the code performs, and compared exactly.                         *)

\* a > num / den, for a variant that also triggers at the threshold
ExceedsOrEquals(a, num, den) == a[1] * den >= num * a[2]

\* a > num / den
Exceeds(a, num, den) == a[1] * den > num * a[2]

\* a < num / den
Below(a, num, den) == a[1] * den < num * a[2]

\* a variant of the comparison that sorts by increasing count
InsertByCountAscending(sorted, e) ==
  LET before == SelectSeq(sorted, LAMBDA x : x.count <= e.count)
  IN  before \o <<e>> \o SubSeq(sorted, Len(before) + 1, Len(sorted))

\* one step of .sort((a, b) => b.count - a.count) on a sorted prefix: the sort
\* is stable, so e goes behind the entries whose count is not smaller
InsertByCount(sorted, e) ==
  LET before == SelectSeq(sorted, LAMBDA x : x.count >= e.count)
  IN  before \o <<e>> \o SubSeq(sorted, Len(before) + 1, Len(sorted))

RECURSIVE SortByCount(_)
SortByCount(entries) ==
  IF entries = << >> THEN << >>
  ELSE InsertByCount(SortByCount(SubSeq(entries, 1, Len(entries) - 1)),
                     entries[Len(entries)])

\* topLanguages: languageMap in insertion order, sorted, .slice(0, 10)
topLanguages(ms) ==
  LET firsts == SelectSeq([i \in 1..Len(ms) |-> i],
                          LAMBDA i : \A j \in 1..(i - 1) : ms[j].targetLang # ms[i].targetLang)
      counted == [k \in 1..Len(firsts) |->
                    [language |-> ms[firsts[k]].targetLang,
                     count |-> Len(SelectSeq(ms, LAMBDA e :
                                               e.targetLang = ms[firsts[k]].targetLang))]]
      sorted == SortByCount(counted)
  IN  SubSeq(sorted, 1, Min(10, Len(sorted)))

\* MetricsStore.getStats (without the quality averages: no caller passes a
\* qualityScore)
getStats(ms) ==
  LET total == Len(ms)
      firsts == SelectSeq([i \in 1..total |-> i],
                          LAMBDA i : \A j \in 1..(i - 1) : ms[j].provider # ms[i].provider)
      OfProvider(p) == SelectSeq(ms, LAMBDA e : e.provider = p)
      Succeeded(es) == Len(SelectSeq(es, LAMBDA e : e.success))
      cacheHits == Len(SelectSeq(ms, LAMBDA e : e.fromCache))
  IN  IF total = 0
      THEN [totalTranslations |-> 0, cacheHits |-> 0, cacheMisses |-> 0,
            cacheHitRate |-> <<0, 1>>, errorRate |-> <<0, 1>>,
            providerStats |-> << >>, topLanguages |-> << >>]
      ELSE [totalTranslations |-> total,
            cacheHits |-> cacheHits,
            cacheMisses |-> total - cacheHits,
            cacheHitRate |-> <<cacheHits, total>>,
            errorRate |-> <<total - Succeeded(ms), total>>,
            providerStats |->
              [k \in 1..Len(firsts) |->
                 LET es == OfProvider(ms[firsts[k]].provider)
                 IN  [provider |-> ms[firsts[k]].provider,
                      totalRequests |-> Len(es),
                      successfulRequests |-> Succeeded(es),
                      failedRequests |-> Len(es) - Succeeded(es),
                      errorRate |-> <<Len(es) - Succeeded(es), Len(es)>>,
                      averageResponseTime |->
                        <<Sum([i \in 1..Len(es) |-> es[i].responseTime]), Len(es)>>]],
            topLanguages |-> topLanguages(ms)]

\* checkPerformanceDegradation: issues in the order the code pushes them; the
\* report carries along the const stats they were derived from
checkPerformanceDegradation(ms) ==
  LET stats == getStats(ms)
      n == Len(stats.providerStats)
      candidates ==
        [k \in 1..(2 * n + 2) |->
           IF k = 1
           THEN [issue |-> <<"High error rate">>,
                 raised |-> Exceeds(stats.errorRate, 1, 10)]
           ELSE IF k = 2 * n + 2
           THEN [issue |-> <<"Low cache hit rate">>,
                 raised |-> Below(stats.cacheHitRate, 3, 10)]
           ELSE LET ps == stats.providerStats[k \div 2]
                IN  IF k % 2 = 0
                    THEN [issue |-> <<"has high error rate", ps.provider>>,
                          raised |-> Exceeds(ps.errorRate, 1, 5)]
                    ELSE [issue |-> <<"is slow", ps.provider>>,
                          raised |-> Exceeds(ps.averageResponseTime, 10000, 1)]]
      raised == SelectSeq(candidates, LAMBDA c : c.raised)
      issues == [k \in 1..Len(raised) |-> raised[k].issue]
  IN  [checked |-> TRUE, isDegrading |-> Len(issues) > 0, issues |-> issues,
       stats |-> stats]

MaxHits == 9

MaxOks == 7

MaxRare == 1

\* target languages of the requests, and the one of the i-th entry of a buffer:
\* the languages in turn, then in turn from the last one backwards
BufferLangs == <<"ja", "fr", "ar", "de", "es", "it", "pt", "ru", "ko", "zh", "hi">>

BufferLang(i) ==
  IF i <= Len(BufferLangs) THEN BufferLangs[i]
  ELSE BufferLangs[Len(BufferLangs) - ((i - Len(BufferLangs) - 1) % Len(BufferLangs))]

\* a buffer of h cache hits, m cache misses, a provider calls that succeeded in
\* exactly 10 s, f that failed after 10 s, and s that succeeded after 10.001 s
Buffer(h, m, a, f, s) ==
  [i \in 1..(h + m + a + f + s) |->
     IF i <= h THEN Metric("Cache", BufferLang(i), 0, TRUE, TRUE, Len(TextCancel))
     ELSE IF i <= h + m THEN Metric("Cache", BufferLang(i), 0, FALSE, FALSE, Len(TextCancel))
     ELSE IF i <= h + m + a
          THEN Metric("NLLB", BufferLang(i), 10000, TRUE, FALSE, Len(TextCancel))
     ELSE IF i <= h + m + a + f
          THEN Metric("NLLB", BufferLang(i), 10000, FALSE, FALSE, Len(TextCancel))
     ELSE Metric("NLLB", BufferLang(i), 10001, TRUE, FALSE, Len(TextCancel))]

DInit ==
  /\ observed = TRUE
  /\ metrics \in {Buffer(h, m, a, f, s) :
                    h \in 0..MaxHits, m \in 0..MaxRare, a \in 0..MaxOks,
                    f \in 0..MaxRare, s \in 0..MaxRare}
  /\ added = metrics
  /\ degradation = NoReport

\* checkPerformanceDegradation()
CheckDegradation ==
  /\ ~degradation.checked
  /\ degradation' = checkPerformanceDegradation(metrics)
  /\ UNCHANGED <<observed, metrics, added>>
  /\ UNCHANGED <<tvars, cvars, rvars, qvars, bvars, evars>>

DNext == CheckDegradation

\* the entries of provider p in the buffer
EntriesOf(p) == {i \in DOMAIN metrics : metrics[i].provider = p}

\* C16: the check reports degradation exactly when more than 10% of the
\* entries failed, or more than 20% of some provider's entries failed, or some
\* provider's response times average more than 10,000 ms, or fewer than 30% of
\* the entries came from the cache (an empty buffer counts as a hit rate of 0);
\* and it reports degradation exactly when it lists an issue.
C16_DegradationThresholds ==
  degradation.checked =>
    LET n == Len(metrics)
        failed(I) == Cardinality({i \in I : ~metrics[i].success})
        hits == Cardinality({i \in DOMAIN metrics : metrics[i].fromCache})
        provs == {metrics[i].provider : i \in DOMAIN metrics}
    IN  /\ degradation.isDegrading =
             \/ failed(DOMAIN metrics) * 10 > n
             \/ \E p \in provs : failed(EntriesOf(p)) * 5 > Cardinality(EntriesOf(p))
             \/ \E p \in provs :
                  Sum([k \in 1..n |-> IF metrics[k].provider = p
                                      THEN metrics[k].responseTime ELSE 0])
                    > 10000 * Cardinality(EntriesOf(p))
             \/ hits * 10 < 3 * n
             \/ n = 0
        /\ degradation.isDegrading = (degradation.issues # << >>)

\* a buffer exactly at the thresholds of the overall error rate (1 of 10), a
\* provider's error rate (1 of 5) and its average latency (10,000 ms), checked
\* and found not degrading
C16_Witness ==
  /\ degradation.checked
  /\ ~degradation.isDegrading
  /\ Len(metrics) = 10
  /\ Cardinality({i \in DOMAIN metrics : ~metrics[i].success}) = 1
  /\ Cardinality(EntriesOf("NLLB")) = 5
  /\ \E i \in EntriesOf("NLLB") : ~metrics[i].success

----------------------------------------------------------------------------
(* [[path]].ts: two GET requests in flight at the same time.  Each runs     *)
(* getTranslations with the cache onRequest built for it; a step is the code *)
(* between two awaits.                                                       *)

RequestIds == {1, 2}

NoFlight ==
  [pc |-> "idle", language |-> "", next |-> 1, memory |-> << >>,
   cachedTranslations |-> << >>, uncachedKeys |-> << >>, calls |-> << >>,
   items |-> << >>, written |-> {}, overlapped |-> FALSE, result |-> << >>]

\* a variant that leaves out what another request is already translating
IssueBatchDeduplicated(r, uncachedKeys) ==
  SelectSeq(SubSeq(uncachedKeys, 1, Min(batchSize, Len(uncachedKeys))),
            LAMBDA k : ~\E o \in RequestIds \ {r} :
                          inflight[o].pc = "translating" /\ k \in Range(inflight[o].calls))

\* the keys handed to translateBatch once the lookups are over: the first
\* batchSize of the uncached ones
IssueBatch(r, uncachedKeys) == SubSeq(uncachedKeys, 1, Min(batchSize, Len(uncachedKeys)))

QInit ==
  /\ RInit
  /\ batchRun = << >>
  /\ inflight = [r \in RequestIds |-> NoFlight]

\* onRequest up to the first await of getTranslations
Arrive(r, language) ==
  /\ inflight[r].pc = "idle"
  /\ inflight' = [inflight EXCEPT ![r] =
       IF ManualTranslations(language).truthy
       THEN [NoFlight EXCEPT !.pc = "done", !.language = language,
                             !.result = ManualTranslations(language).flattened]
       ELSE IF language = "en" \/ ~hasProvider
       THEN [NoFlight EXCEPT !.pc = "done", !.language = language,
                             !.result = englishTranslations]
       ELSE [NoFlight EXCEPT !.pc = "lookup", !.language = language]]
  /\ UNCHANGED <<tvars, cvars, rvars, mvars, bvars, evars>>

\* await cache.get(...) of the lookup loop resolves; after the last lookup the
\* request returns, or calls translateBatch and awaits it
Lookup(r, faults) ==
  /\ inflight[r].pc = "lookup"
  /\ ~faults.put
  /\ kvBound \/ faults = NoFaults
  /\ LET q == inflight[r]
         key == TranslationKeys[q.next]
     IN  \E g \in {TranslationCacheGet(RequestCacheConfig, kvStore, kvBound, q.memory,
                                       generateCacheKey(englishTranslations[key], "en",
                                                        q.language),
                                       now, faults)} :
           LET hit == g.hit /\ Len(g.text) > 0
               cachedTranslations == IF hit THEN Merge(q.cachedTranslations, (key :> g.text))
                                     ELSE q.cachedTranslations
               uncachedKeys == IF hit THEN q.uncachedKeys ELSE Append(q.uncachedKeys, key)
               last == q.next = Len(TranslationKeys)
               batch == IssueBatch(r, uncachedKeys)
           IN  /\ kvStore' = g.store
               /\ metrics' = trackTranslationComplete(metrics, now, now, "Cache", q.language,
                                                      hit, hit, Len(englishTranslations[key]))
               /\ inflight' = [inflight EXCEPT ![r] =
                    [q EXCEPT !.memory = g.cache,
                              !.cachedTranslations = cachedTranslations,
                              !.uncachedKeys = uncachedKeys,
                              !.next = q.next + 1,
                              !.pc = IF ~last THEN "lookup"
                                     ELSE IF Len(batch) = 0 THEN "done" ELSE "translating",
                              !.calls = IF last THEN batch ELSE << >>,
                              !.overlapped = last /\ Len(batch) > 0 /\
                                             \E o \in RequestIds \ {r} :
                                               inflight[o].pc = "translating",
                              !.result = IF last /\ Len(batch) = 0
                                         THEN cachedTranslations ELSE << >>]]
  /\ UNCHANGED <<config, kvBound, memoryCache, now, lastOp>>
  /\ UNCHANGED <<tvars, rvars, observed, added, degradation, bvars, evars>>

\* await translateBatch(...) settles: fill translated, call cache.set for what
\* was translated, and return
BatchSettles(r, outcome) ==
  /\ inflight[r].pc = "translating"
  /\ LET q == inflight[r]
         done == IF outcome[1] = "throw"
                 THEN [translated |-> [k \in Range(q.calls) |-> englishTranslations[k]],
                       cache |-> q.memory, sets |-> {}]
                 ELSE BatchLoop(1, q.calls, outcome[2], q.language, TRUE, q.memory,
                                << >>, {})
     IN  /\ inflight' = [inflight EXCEPT ![r] =
              [q EXCEPT !.pc = "done", !.memory = done.cache, !.items = outcome,
                        !.written = {w.key : w \in done.sets},
                        !.result = Merge(q.cachedTranslations, done.translated)]]
         /\ pendingPuts' = IF kvBound THEN pendingPuts \cup done.sets ELSE pendingPuts
  /\ UNCHANGED <<hasProvider, cached, lastRequest, requests>>
  /\ UNCHANGED <<tvars, cvars, mvars, bvars, evars>>

QNext ==
  \/ \E r \in RequestIds, language \in RequestLangs : Arrive(r, language)
  \/ \E r \in RequestIds, f \in Faults : Lookup(r, f)
  \/ \E r \in RequestIds, o \in BatchOutcomes : BatchSettles(r, o)
  \/ \E fails \in BOOLEAN : PutSettles(fails)

\* the cache key of translation key k for request r
FlightKey(r, k) == generateCacheKey(englishTranslations[k], "en", inflight[r].language)

\* C13: nothing deduplicates requests in flight.  A lookup misses whenever the
\* store holds no entry for the key, also while another request is translating
\* that key; every key a request missed is handed to the providers
\* by that request; and every translation a request received is written to the
\* cache by that request.
C13_NoInFlightDeduplication ==
  /\ [](\A r \in RequestIds :
          LET q == inflight[r]
          IN  /\ q.pc \in {"translating", "done"} => q.calls = q.uncachedKeys
              /\ (q.pc = "done" /\ q.items # << >> /\ q.items[1] = "ok") =>
                   \A i \in 1..Len(q.calls) :
                     BatchItemText(q.items[2][i], englishTranslations[q.calls[i]])
                         \notin {EmptyText, englishTranslations[q.calls[i]]}
                       => FlightKey(r, q.calls[i]) \in q.written)
  /\ [][\A r \in RequestIds :
          (inflight[r].pc = "lookup" /\ inflight'[r] # inflight[r]) =>
            LET q == inflight[r]
                key == TranslationKeys[q.next]
                missed == key \in Range(inflight'[r].uncachedKeys)
            IN  kvStore[FlightKey(r, key)] = NoEntry => missed
       ]_vars

\* both requests missed the first key while the other was in flight, both handed
\* it to the providers and both wrote it
C13_Witness ==
  /\ \E r \in RequestIds : inflight[r].overlapped
  /\ \A r \in RequestIds :
       /\ inflight[r].pc = "done"
       /\ TranslationKeys[1] \in Range(inflight[r].calls)
       /\ FlightKey(r, TranslationKeys[1]) \in inflight[r].written

----------------------------------------------------------------------------
(* translation-service.ts: translateBatch.  A per-item translate call is    *)
(* taken by its outcome: it resolves or it rejects.                          *)

itemBatchSize == 5

MaxBatchTexts == 7

\* a variant that starts every remaining call at once
GroupEndUnlimited(i, n) == n

\* the last index (1-based) of the group that starts after index i
GroupEnd(i, n) == Min(i + itemBatchSize, n)

\* batch.map(text => this.translate(...)) for the group after index i
StartGroup(run, i) ==
  [run EXCEPT !.pc = "items", !.i = i,
              !.calls = [k \in DOMAIN run.calls |->
                           IF k > i /\ k <= GroupEnd(i, Len(run.texts)) THEN "pending"
                           ELSE run.calls[k]]]

\* what this.translate resolves with for a text (the translation itself is
\* the matter of translate)
ItemTranslation(t) == <<"translation of", t>>

\* a variant that hands the caller what the completed groups had collected
RejectedWithPartial(run) == [run EXCEPT !.pc = "returned", !.delivered = run.results]

\* the rejection of Promise.all leaves translateBatch: its caller gets no value
Rejected(run) == [run EXCEPT !.pc = "thrown"]

\* results.push(...batchResults) for the group that ends at index last
PushResults(run, last) ==
  [run EXCEPT !.results = run.results \o [k \in 1..(last - run.i) |->
                                            ItemTranslation(run.texts[run.i + k])]]

\* return results
Return(run, value) == [run EXCEPT !.pc = "returned", !.delivered = value]

BInit ==
  /\ TranslateIdle
  /\ batchRun = [pc |-> "start", texts |-> << >>, i |-> 0, calls |-> << >>,
                 results |-> << >>, delivered |-> << >>]
  /\ inflight = << >>

\* translateBatch up to its first await: sanitize, then the native batch
\* request if LibreTranslate is available, else the first group of calls
TranslateBatch(url, texts) ==
  /\ batchRun.pc = "start"
  /\ libreTranslateUrl' = url
  /\ LET run == [pc |-> "start", i |-> 0,
                 texts |-> [k \in DOMAIN texts |-> sanitizeText(texts[k])],
                 calls |-> [k \in DOMAIN texts |-> "idle"],
                 results |-> << >>, delivered |-> << >>]
     IN  batchRun' = IF Len(texts) = 0 THEN Return(run, << >>)
                     ELSE IF IsAvailable("LibreTranslate", url)
                     THEN [run EXCEPT !.pc = "native"]
                     ELSE StartGroup(run, 0)
  /\ UNCHANGED <<text, targetLang, sanitizedText, availableProviders, pc, call, results,
                 seqCall, seqOutcome, errors, returned, thrown>>
  /\ UNCHANGED <<cvars, rvars, mvars, inflight, evars>>

\* await translateBatchLibreTranslate(...) settles: return its answer, or on
\* a throw fall back to the individual translations
NativeSettles(ok) ==
  /\ batchRun.pc = "native"
  /\ batchRun' = IF ok
                 THEN Return(batchRun, [k \in DOMAIN batchRun.texts |->
                                          ItemTranslation(batchRun.texts[k])])
                 ELSE StartGroup(batchRun, 0)
  /\ UNCHANGED <<tvars, cvars, rvars, mvars, inflight, evars>>

\* the translate call for text k settles.  While translateBatch awaits the
\* group's Promise.all: a rejection makes translateBatch throw, and when the
\* last call of the group resolves the next group starts or translateBatch returns
ItemSettles(k, ok) ==
  /\ k \in DOMAIN batchRun.calls
  /\ batchRun.calls[k] = "pending"
  /\ LET run == [batchRun EXCEPT !.calls[k] = IF ok THEN "resolved" ELSE "rejected"]
         last == GroupEnd(run.i, Len(run.texts))
     IN  batchRun' =
           IF run.pc # "items" THEN run
           ELSE IF ~ok THEN Rejected(run)
           ELSE IF \E j \in (run.i + 1)..last : run.calls[j] = "pending" THEN run
           ELSE IF last = Len(run.texts)
                THEN Return(PushResults(run, last), PushResults(run, last).results)
           ELSE StartGroup(PushResults(run, last), last)
  /\ UNCHANGED <<tvars, cvars, rvars, mvars, inflight, evars>>

BNext ==
  \/ \E url \in BOOLEAN, n \in 0..MaxBatchTexts :
       TranslateBatch(url, [k \in 1..n |-> IF k % 2 = 1 THEN TextCancel ELSE TextSave])
  \/ \E ok \in BOOLEAN : NativeSettles(ok)
  \/ \E k \in 1..MaxBatchTexts, ok \in BOOLEAN : ItemSettles(k, ok)

\* C17: at most itemBatchSize translate calls of one translateBatch call are
\* in flight at once, and while a call is in flight every call for an earlier
\* text outside its group of itemBatchSize has completed.
C17_GroupsOfFive ==
  batchRun.pc # "start" =>
    LET pending == {k \in DOMAIN batchRun.calls : batchRun.calls[k] = "pending"}
    IN  /\ Cardinality(pending) <= itemBatchSize
        /\ \A k \in pending : \A j \in DOMAIN batchRun.calls :
             (j - 1) \div itemBatchSize < (k - 1) \div itemBatchSize
               => batchRun.calls[j] \in {"resolved", "rejected"}

\* the second group is in flight
C17_Witness ==
  /\ batchRun.pc = "items"
  /\ batchRun.i = itemBatchSize
  /\ \E k \in DOMAIN batchRun.calls : k > itemBatchSize /\ batchRun.calls[k] = "pending"

----------------------------------------------------------------------------
(* Failures at the provider boundary *)

\* C23: a provider's translate fails, rather than returning a string, on
\* timeout, on a non-success HTTP status, when the backend is still loading,
\* on an unsupported language pair and on a response body without the
\* translation field, and each such failure is a failed outcome of the race:
\* whenever the racing phase records the outcome of a call that the backend
\* answered with anything but a translation, the outcome is a failure.
C23_BadResponsesFail ==
  [][\A p \in ProviderSet, resp \in BackendNoField \cup BackendStatus \cup BackendAbort :
       ( /\ pc = "racing"
         /\ results[p].status = "none"
         /\ results'[p] # results[p]
         /\ results'[p] = RaceOutcome(ProviderTranslate(p, sanitizedText, targetLang, resp)) )
       => results'[p].status = "fail"
    ]_vars

----------------------------------------------------------------------------
(* Sanitization and the time bound of the racing phase *)

\* C18: every text handed to a provider is the sanitized source text, with
\* script-tag sequences and inline event-handler attribute patterns removed:
\* once the providers' calls are launched, the text they were given matches
\* neither pattern of sanitizeText at any position.
C18_ProvidersGetNoScript ==
  (\E p \in ProviderSet : call[p] # "idle") =>
    \A i \in 1..Len(sanitizedText) :
      ScriptMatchEnd(sanitizedText, i) = 0 /\ HandlerMatchEnd(sanitizedText, i) = 0

\* the largest timeout among the eligible providers
LargestTimeout ==
  CHOOSE t \in {RaceTimeout(p) : p \in Range(availableProviders)} :
    \A p \in Range(availableProviders) : RaceTimeout(p) <= t

\* C19: the racing phase of one translate call ends no later than the largest
\* per-provider timeout among the eligible providers after it began: while
\* outcomes are still being collected the elapsed time has not passed that
\* timeout, and the phase is over once it is reached and every timer has fired.
C19_RaceBoundedByLargestTimeout ==
  /\ pc = "racing" => ElapsedMs <= LargestTimeout
  /\ (pc = "racing" /\ ElapsedMs = LargestTimeout) =>
       \A p \in Range(availableProviders) :
         results[p].status = "none" => ElapsedMs >= Deadline(availableProviders, p)

\* a racing phase that lasted the largest timeout, ended by a timer
C19_Witness ==
  /\ pc \notin {"start", "racing"}
  /\ availableProviders # << >>
  /\ ElapsedMs = LargestTimeout
  /\ \E p \in Range(availableProviders) :
       results[p] = Failure(TimeoutError(p)) /\ RaceTimeout(p) = LargestTimeout

----------------------------------------------------------------------------
(* evaluateTranslationQuality applied to one set of parameters.  Thresholds *)
(* are in thousandths, as in evaluateTranslationQuality above.               *)

\* katakana "ki" followed by U+FFFD
TextReplaced == <<12461, 65533>>

\* "aa aa aa aa aa aa aa aa": more than 20 characters, one word repeated
TextRepeated ==
  <<97, 97, 32, 97, 97, 32, 97, 97, 32, 97, 97, 32>> \o
  <<97, 97, 32, 97, 97, 32, 97, 97, 32, 97, 97>>

\* katakana "kyanseru" followed by "!": five characters in six are Japanese
TextMixed == TextKatakana \o <<33>>

\* "Hello"
TextHello == <<72, 101, 108, 108, 111>>

\* "Annuler"
TextAnnuler == <<65, 110, 110, 117, 108, 101, 114>>

QualitySources == {EmptyText, TextBlank, TextCancel, TextNested, TextHello}

QualityTranslations ==
  {EmptyText, TextBlank, TextCancel, TextKatakana, TextError, TextNested,
   TextReplaced, TextRepeated, TextMixed, TextHello, TextAnnuler}

\* "xx" has no entry in the language table, "zxx" an entry without a script,
\* "chr" an entry whose script has no ranges in scriptRanges
QualityLangs == {"ja", "fr", "ar", "xx", "zxx", "chr"}

Thresholds == {0, 500, 900, 1000}

\* no QualityScore returned yet
NoQuality ==
  [ score |-> -1, lengthRatio |-> 0, encoding |-> 0, scriptConsistency |-> 0,
    languageMatch |-> 0, confidence |-> 0, passes |-> FALSE, issues |-> {} ]

\* no call of evaluateTranslationQuality
EvaluationIdle ==
  evaluation = [ sourceText |-> EmptyText, translatedText |-> EmptyText, targetLang |-> "",
                 threshold |-> 500, result |-> NoQuality ]

EInit ==
  evaluation \in [ sourceText : QualitySources, translatedText : QualityTranslations,
                   targetLang : QualityLangs, threshold : Thresholds,
                   result : {NoQuality} ]

EvaluateQuality ==
  /\ evaluation.result = NoQuality
  /\ evaluation' =
       [evaluation EXCEPT !.result =
          evaluateTranslationQuality(evaluation.sourceText, evaluation.translatedText,
                                     evaluation.targetLang, evaluation.threshold)]
  /\ UNCHANGED <<tvars, cvars, rvars, mvars, qvars, bvars>>

ENext == EvaluateQuality

\* C20: for all inputs to evaluateTranslationQuality, each of the five
\* sub-scores and the overall score lies in [0,1]; the overall score is
\* 0.15 lengthRatio + 0.20 encoding + 0.25 scriptConsistency
\* + 0.25 languageMatch + 0.15 confidence; and passes is true exactly when
\* the overall score is at least the threshold.  Each sub-score is compared
\* as its numerator over ScoreDen.
C20_ScoresWeightsThreshold ==
  evaluation.result # NoQuality =>
    LET q == evaluation.result
        den == LengthDen(evaluation.sourceText)
    IN  /\ q.lengthRatio \in 0..den
        /\ q.encoding \in 0..1000
        /\ q.scriptConsistency \in 0..1000
        /\ q.languageMatch \in 0..1000
        /\ q.confidence \in 0..1000
        /\ q.score \in 0..ScoreDen(evaluation.sourceText)
        /\ 100 * q.score =
               15 * (100000 * q.lengthRatio)
             + 20 * (100 * den * q.encoding)
             + 25 * (100 * den * q.scriptConsistency)
             + 25 * (100 * den * q.languageMatch)
             + 15 * (100 * den * q.confidence)
        /\ q.passes <=> (q.score >= evaluation.threshold * 100 * den)

\* a translation scored exactly 0.9 and evaluated against the threshold 0.9
C20_Witness ==
  /\ evaluation.result # NoQuality
  /\ evaluation.threshold = 900
  /\ evaluation.result.score * 10 = 9 * ScoreDen(evaluation.sourceText)
  /\ evaluation.result.passes

\* the share of characters outside the ranges is smaller in t1 than in t2
OutsideShareLess(t1, t2, ranges) ==
  /\ Len(t1) > 0
  /\ Len(t2) > 0
  /\ (Len(t1) - ScriptCharCount(t1, ranges)) * Len(t2)
       < (Len(t2) - ScriptCharCount(t2, ranges)) * Len(t1)

\* C21 as stated: for a target language with known script ranges the
\* script-consistency sub-score is 1.0 when all of the candidate's characters
\* lie within the expected ranges, and strictly decreases as the share of
\* characters outside the expected script increases.
C21_StrictlyDecreasing ==
  LET e == evaluation
      ranges == ScriptRanges(LangScript(e.targetLang))
  IN  (e.result # NoQuality /\ LangKnown(e.targetLang) /\ ranges # {}
       /\ Len(e.translatedText) > 0) =>
        /\ ScriptCharCount(e.translatedText, ranges) = Len(e.translatedText)
             => e.result.scriptConsistency = 1000
        /\ \A t \in QualityTranslations :
             OutsideShareLess(e.translatedText, t, ranges) =>
               calculateScriptConsistencyScore(t, e.targetLang) < e.result.scriptConsistency

\* C21, amended: the sub-score is 1.0 when at least 80% of the characters of a
\* non-empty candidate lie within the expected ranges, it is one of 1.0, 0.7,
\* 0.4 and 0.1 (0.7 from 50%, 0.4 from 30%), 0 for the empty candidate, and
\* it never increases as the share of characters outside the script increases.
C21_StepwiseNonIncreasing ==
  LET e == evaluation
      ranges == ScriptRanges(LangScript(e.targetLang))
      total == Len(e.translatedText)
      inScript == ScriptCharCount(e.translatedText, ranges)
      sc == e.result.scriptConsistency
  IN  (e.result # NoQuality /\ LangKnown(e.targetLang) /\ ranges # {}) =>
        /\ total = 0 => sc = 0
        /\ total > 0 =>
             sc = (IF 10 * inScript >= 8 * total THEN 1000
                   ELSE IF 10 * inScript >= 5 * total THEN 700
                   ELSE IF 10 * inScript >= 3 * total THEN 400 ELSE 100)
        /\ \A t \in QualityTranslations :
             OutsideShareLess(e.translatedText, t, ranges) =>
               calculateScriptConsistencyScore(t, e.targetLang) <= sc

\* a candidate with one character in six outside the script, scored 1.0
C21_Witness ==
  /\ evaluation.result # NoQuality
  /\ evaluation.targetLang = "ja"
  /\ evaluation.translatedText = TextMixed
  /\ evaluation.result.scriptConsistency = 1000

\* candidate t differs from the source and would score like the evaluated
\* candidate in everything but the comparison with the source
EquivalentCandidate(e, t) ==
  /\ t # e.sourceText
  /\ calculateLengthRatioScore(e.sourceText, t) = e.result.lengthRatio
  /\ calculateEncodingScore(t) = e.result.encoding
  /\ calculateScriptConsistencyScore(t, e.targetLang) = e.result.scriptConsistency
  /\ calculateLanguageMatchScore(t, e.targetLang) = e.result.languageMatch
  /\ calculateConfidenceScore(EmptyText, t) = calculateConfidenceScore(EmptyText, e.translatedText)

\* C22 as stated: for sourceText = "Hello" and candidate = "Hello" the
\* confidence sub-score has the 0.3 multiplier applied, and the overall score
\* is lower than that of a non-identical candidate whose other sub-scores are
\* the same.
C22_HelloPenalised ==
  LET e == evaluation
  IN  (e.result # NoQuality /\ e.sourceText = TextHello /\ e.translatedText = TextHello) =>
        /\ e.result.confidence = 300
        /\ \A t \in QualityTranslations :
             EquivalentCandidate(e, t) =>
               e.result.score < evaluateTranslationQuality(e.sourceText, t, e.targetLang,
                                                           e.threshold).score

\* C22, amended: for a non-blank candidate identical to a source text of more
\* than 5 characters the confidence sub-score has the 0.3 multiplier applied,
\* and the overall score is lower than that of a non-identical candidate whose
\* other sub-scores are the same; for an identical candidate of at most 5
\* characters, such as "Hello", the multiplier is not applied.
C22_IdenticalLongerThanFive ==
  LET e == evaluation
      base == calculateConfidenceScore(EmptyText, e.translatedText)
  IN  (e.result # NoQuality /\ e.translatedText = e.sourceText
       /\ Len(Trim(e.translatedText)) > 0) =>
        IF Len(e.sourceText) > 5
        THEN /\ 10 * e.result.confidence = 3 * base
             /\ \A t \in QualityTranslations :
                  EquivalentCandidate(e, t) =>
                    e.result.score < evaluateTranslationQuality(e.sourceText, t, e.targetLang,
                                                                e.threshold).score
        ELSE e.result.confidence = base

\* "Cancel" returned for "Cancel", with "Annuler" as the equivalent candidate
C22_Witness ==
  /\ evaluation.result # NoQuality
  /\ evaluation.sourceText = TextCancel
  /\ evaluation.translatedText = TextCancel
  /\ evaluation.targetLang = "fr"
  /\ evaluation.result.confidence = 300
  /\ EquivalentCandidate(evaluation, TextAnnuler)

\* C24: evaluateTranslationQuality returns a QualityScore and never raises,
\* whatever the texts and the language codes, empty strings and unknown codes
\* included: for the parameters of every call the value to return is a
\* complete QualityScore, and it is what the call returns; when the target
\* language has no entry, no script, or a script without ranges,
\* scriptConsistency is 0.8.
C24_NeverRaisesNeutralScript ==
  LET e == evaluation
      q == evaluateTranslationQuality(e.sourceText, e.translatedText, e.targetLang,
                                      e.threshold)
  IN  /\ q.score >= 0
      /\ q.passes \in BOOLEAN
      /\ q.issues \subseteq {"length", "encoding", "script", "language", "confidence"}
      /\ e.result # NoQuality =>
           /\ e.result = q
           /\ ( \/ ~LangKnown(e.targetLang)
                \/ LangScript(e.targetLang) = ""
                \/ ScriptRanges(LangScript(e.targetLang)) = {} )
                => e.result.scriptConsistency = 800

\* two empty strings evaluated for a language whose script has no ranges
C24_Witness ==
  /\ evaluation.result # NoQuality
  /\ evaluation.sourceText = EmptyText
  /\ evaluation.translatedText = EmptyText
  /\ evaluation.targetLang = "chr"
  /\ evaluation.result.scriptConsistency = 800

\* C25: for every candidate and every target language the languageMatch
\* sub-score is 0.9 x scriptConsistency, reduced further to at most 0.3 when
\* the target language is right-to-left and a candidate longer than 10
\* characters contains no right-to-left character; it is never greater than
\* 0.9 x scriptConsistency.
C25_LanguageMatchFromScript ==
  LET e == evaluation
      lm == e.result.languageMatch
      sc == e.result.scriptConsistency
      t == e.translatedText
  IN  e.result # NoQuality =>
        /\ 10 * lm <= 9 * sc
        /\ IF /\ LangKnown(e.targetLang) /\ LangRtl(e.targetLang)
              /\ Len(t) > 10
              /\ ~(\E i \in 1..Len(t) : IsRtlChar(t[i]))
           THEN lm <= 300
           ELSE 10 * lm = 9 * sc

\* C26: for any contents of the metrics buffer getStats is internally
\* consistent: cacheHits + cacheMisses = totalTranslations; for each provider
\* successfulRequests + failedRequests = totalRequests; the providers'
\* totalRequests sum to totalTranslations; and topLanguages lists at most 10
\* target languages, each once, in non-increasing order of request count.
C26_StatsConsistent ==
  degradation.checked =>
    LET st == degradation.stats
        ps == st.providerStats
        top == st.topLanguages
    IN  /\ st.totalTranslations = Len(metrics)
        /\ st.cacheHits + st.cacheMisses = st.totalTranslations
        /\ \A k \in DOMAIN ps :
             ps[k].successfulRequests + ps[k].failedRequests = ps[k].totalRequests
        /\ Sum([k \in DOMAIN ps |-> ps[k].totalRequests]) = st.totalTranslations
        /\ Len(top) <= 10
        /\ \A k \in 1..(Len(top) - 1) : top[k].count >= top[k + 1].count
        /\ \A k, l \in DOMAIN top : top[k].language = top[l].language => k = l
        /\ \A k \in DOMAIN top :
             top[k].count = Cardinality({i \in DOMAIN metrics :
                                           metrics[i].targetLang = top[k].language})

\* statistics of a buffer with more than 10 target languages, of which the
\* later ones were requested more often
C26_Witness ==
  /\ degradation.checked
  /\ Cardinality({metrics[i].targetLang : i \in DOMAIN metrics}) > 10
  /\ Len(degradation.stats.topLanguages) = 10
  /\ degradation.stats.topLanguages[1].language # metrics[1].targetLang
  /\ degradation.stats.topLanguages[1].count > degradation.stats.topLanguages[10].count

----------------------------------------------------------------------------
(* One TranslationCache used for source texts of which two have the same   *)
(* simpleHash: 31 * 65 + 97 = 31 * 66 + 66.                                 *)

\* "Aa"
TextAa == <<65, 97>>

\* "BB"
TextBB == <<66, 66>>

KeyTexts == {TextAa, TextBB, TextCancel}

\* the translation the caller stores for a source text
TranslationOf(sourceText) ==
  CASE sourceText = TextAa -> TextKatakana
    [] sourceText = TextBB -> TextMixed
    [] OTHER -> TextAnnuler

KInit ==
  /\ config = [ttl |-> DefaultTtl, version |-> DefaultVersion, enabled |-> TRUE]
  /\ kvBound \in BOOLEAN
  /\ kvStore = [k \in {generateCacheKey(t, "en", "ja") : t \in KeyTexts} |-> NoEntry]
  /\ memoryCache = << >>
  /\ now = 0
  /\ lastOp = NoOp

KNext ==
  \/ \E t \in KeyTexts, f \in Faults : CacheGet(t, "ja", f)
  \/ \E t \in KeyTexts, f \in Faults : CacheSet(t, "ja", TranslationOf(t), f)
  \/ \E t \in KeyTexts, f \in Faults : CacheDelete(t, "ja", f)
  \/ Tick

\* C27: TranslationCache.get(text, sourceLang, targetLang) returns only a
\* translation that was stored by a set with the same (text, sourceLang,
\* targetLang): distinct triples have distinct cache keys, and a get that
\* hits returns what the caller stores for that very source text.
C27_GetReturnsOwnTranslation ==
  /\ [](\A t1, t2 \in KeyTexts :
          t1 # t2 => generateCacheKey(t1, "en", "ja") # generateCacheKey(t2, "en", "ja"))
  /\ [][\A t \in KeyTexts, f \in Faults :
          (CacheGet(t, "ja", f) /\ lastOp'.hit) => lastOp'.text = TranslationOf(t)]_vars

\* C28: on the per-item path translateBatch resolves exactly when every
\* item's translate resolves, and then returns one result per input text in
\* input order; if any item's translate rejects, translateBatch rejects as a
\* whole and delivers no partial results, those of completed groups included.
C28_AllOrNothingInOrder ==
  LET run == batchRun
      perItem == \E k \in DOMAIN run.calls : run.calls[k] # "idle"
  IN  (run.pc # "start" /\ perItem) =>
        /\ run.pc = "returned" <=> \A k \in DOMAIN run.calls : run.calls[k] = "resolved"
        /\ run.pc = "returned" =>
             run.delivered = [k \in DOMAIN run.texts |-> ItemTranslation(run.texts[k])]
        /\ run.pc = "thrown" <=> \E k \in DOMAIN run.calls : run.calls[k] = "rejected"
        /\ run.pc # "returned" => run.delivered = << >>

\* a call of the second group rejected after the first group had completed
C28_Witness ==
  /\ batchRun.pc = "thrown"
  /\ Len(batchRun.results) = itemBatchSize
  /\ batchRun.delivered = << >>
  /\ \E k \in DOMAIN batchRun.calls : k > itemBatchSize /\ batchRun.calls[k] = "rejected"

\* the cache key getTranslations uses for translation key k and a language
RequestKey(k, language) == generateCacheKey(englishTranslations[k], "en", language)

\* some translation key of some cached language has cache key ck and the
\* English text t
EnglishOf(ck, t) ==
  \E k \in Range(TranslationKeys), l \in CacheLangs :
    ck = RequestKey(k, l) /\ t = englishTranslations[k]

\* C29: through getTranslations the cache is never written with a text equal
\* to the English source text: no tier and no put under way holds, under the
\* key of an English text, that text; a request that fell back to English for
\* a key writes nothing for it; and the next cached request for the language
\* hands the key to the providers again when no request has cached it.
C29_EnglishNeverCached ==
  /\ [](/\ \A w \in pendingPuts : ~EnglishOf(w.key, w.entry.text)
        /\ \A ck \in AllKeys : /\ ~EnglishOf(ck, kvStore[ck].text)
                               /\ ~EnglishOf(ck, cached[ck].entry.text)
        /\ \A i \in DOMAIN memoryCache : ~EnglishOf(memoryCache[i].key, memoryCache[i].value.text))
  /\ [][(requests' = requests + 1 /\ lastRequest'.language \in CacheLangs) =>
         \A k \in Range(TranslationKeys) :
           LET ck == RequestKey(k, lastRequest'.language)
           IN  /\ (k \in Range(lastRequest'.calls) /\ lastRequest'.result[k] = englishTranslations[k])
                    => /\ cached'[ck] = cached[ck]
                       /\ \A w \in pendingPuts' \ pendingPuts : w.key # ck
                       /\ \A i \in DOMAIN memoryCache' : memoryCache'[i].key # ck
               /\ (/\ lastRequest.language = lastRequest'.language
                   /\ k \in Range(lastRequest.calls)
                   /\ lastRequest.result[k] = englishTranslations[k]
                   /\ cached[ck] = NoCached
                   /\ lastRequest'.route = "GET")
                    => k \in Range(lastRequest'.calls)
       ]_vars

\* the second of two cached requests for 'ja': the first key fell back to
\* English for the first request, is handed to the providers again and falls
\* back again, and nothing is cached for it, while the other key is cached
C29_Witness ==
  /\ requests = 2
  /\ lastRequest.route = "GET"
  /\ lastRequest.language = "ja"
  /\ lastRequest.calls = <<"common.cancel">>
  /\ lastRequest.result["common.cancel"] = TextCancel
  /\ cached[RequestKey("common.cancel", "ja")] = NoCached
  /\ cached[RequestKey("common.save", "ja")].stored

\* C30: for any requested language and any pattern of provider and cache
\* failures, getTranslations returns a value for every key of the English
\* translation set (a cached translation, a fresh translation, or the English
\* text) and for no other key.
C30_EveryEnglishKeyAnswered ==
  lastRequest.route # "none" =>
    /\ DOMAIN lastRequest.result = Range(TranslationKeys)
    /\ \A k \in DOMAIN lastRequest.result : lastRequest.result[k] # EmptyText

----------------------------------------------------------------------------
(* Specifications *)

\* one call of HybridTranslationService.translate
InitTranslate == EvaluationIdle /\ CacheIdle /\ RequestIdle /\ MetricsIdle /\ ConcurrentIdle /\ TInit

SpecTranslate == InitTranslate /\ [][TNext]_vars

\* translate with the clock and the metrics store followed: one language
TrackedInit ==
  /\ TInit
  /\ libreTranslateUrl = FALSE
  /\ text \in {TextCancel, TextNested}
  /\ targetLang = "ja"

TrackedNext == TNext \/ TimePasses

InitTracked == EvaluationIdle /\ CacheIdle /\ RequestIdle /\ MetricsLoaded /\ ConcurrentIdle /\ TrackedInit

SpecTracked == InitTracked /\ [][TrackedNext]_vars

\* one TranslationCache instance used by one caller at a time
InitCache == EvaluationIdle /\ TranslateIdle /\ RequestIdle /\ MetricsIdle /\ ConcurrentIdle /\ CInit

SpecCache == InitCache /\ [][CNext]_vars

InitCacheStore == EvaluationIdle /\ TranslateIdle /\ RequestIdle /\ MetricsIdle /\ ConcurrentIdle /\ CStoreInit

\* one TranslationCache instance over a store that also holds foreign values
SpecCacheStore == InitCacheStore /\ [][CNext]_vars

InitMemory == EvaluationIdle /\ TranslateIdle /\ RequestIdle /\ MetricsIdle /\ ConcurrentIdle /\ MInit

\* the in-process tier of one TranslationCache
SpecMemory == InitMemory /\ [][MNext]_vars

InitMetrics == EvaluationIdle /\ TranslateIdle /\ CacheIdle /\ RequestIdle /\ ConcurrentIdle /\ MetricsLoaded

\* the metrics store under add and clear
SpecMetrics == InitMetrics /\ [][SNext]_vars

InitDegradation == EvaluationIdle /\ TranslateIdle /\ CacheIdle /\ RequestIdle /\ ConcurrentIdle /\ DInit

\* checkPerformanceDegradation over buffers around its thresholds
SpecDegradation == InitDegradation /\ [][DNext]_vars

InitBatch == EvaluationIdle /\ CacheIdle /\ RequestIdle /\ MetricsIdle /\ BInit

\* one call of HybridTranslationService.translateBatch
SpecBatch == InitBatch /\ [][BNext]_vars

InitConcurrent == EvaluationIdle /\ TranslateIdle /\ MetricsLoaded /\ QInit

\* two requests in flight at the same time
SpecConcurrent == InitConcurrent /\ [][QNext]_vars

InitRequest == EvaluationIdle /\ TranslateIdle /\ MetricsLoaded /\ ConcurrentIdle /\ RInit

\* successive requests to one deployment
SpecRequest == InitRequest /\ [][RNext]_vars

\* one call of evaluateTranslationQuality
InitQuality ==
  TranslateIdle /\ CacheIdle /\ RequestIdle /\ MetricsIdle /\ ConcurrentIdle /\ EInit

SpecQuality == InitQuality /\ [][ENext]_vars

\* one TranslationCache, two of its source texts with the same hash
InitKeys ==
  EvaluationIdle /\ TranslateIdle /\ RequestIdle /\ MetricsIdle /\ ConcurrentIdle /\ KInit

SpecKeys == InitKeys /\ [][KNext]_vars

====
